---- MODULE Spec2Model ----
(***************************************************************************)
(* Memory-Leak-Detector-Tool: the analysis engine.                         *)
(*                                                                         *)
(*   performAnalysis (share.js)  ->  new MemoryAnalyzer(language)          *)
(*     -> MemoryAnalyzer.analyze(code)                                     *)
(*          -> ASTParser.parse(code): removeComments, parseC               *)
(*          -> per node: processASTAllocation / handleAllocation,          *)
(*                       processASTDeallocation / handleFree,              *)
(*                       updateTimeline                                    *)
(*          -> detectCodeQualityIssues per line of the original code       *)
(*          -> findLeaks                                                   *)
(*     -> analysis.timeline = analyzer.timeline                            *)
(*                                                                         *)
(* For javascript with the Acorn library on the page, parse goes through   *)
(* parseJavaScript and convertAcornAST instead of parseC.  On the page,    *)
(* analyzeCode (samples.js) sets the timer that calls                      *)
(* performAnalysisInternal, which calls performAnalysis.                   *)
(*                                                                         *)
(* Source text is a sequence of physical lines (the result of              *)
(* code.split('\n')), each line a sequence of lexical tokens.  A token is  *)
(* a maximal run of letters and underscores, a maximal run of digits, one  *)
(* whitespace character, or one punctuation mark; the regular expressions  *)
(* of the source are matched on tokens: \w+ matches a run of letter and    *)
(* digit tokens that stand side by side, \d+ one run of digits.            *)
(***************************************************************************)
EXTENDS Integers, Sequences, FiniteSets, TLC

\* ------------------------------------------------------------------ tokens

\* A character is a string of length one, or the name "U+xxxx" of a code point
\* that cannot be written in a string here.  A string value of the program is a
\* sequence of characters.
Chars(str) == [i \in 1..Len(str) |-> SubSeq(str, i, i)]

RECURSIVE Concat(_)
\* The characters one after the other, as one text.
Concat(chars) == IF Len(chars) = 0 THEN "" ELSE chars[1] \o Concat(SubSeq(chars, 2, Len(chars)))

\* The characters \s matches, trim() removes and parseInt skips: the white space
\* and the line terminators of ECMAScript (tab, line feed, vertical tab, form
\* feed, carriage return, blank, no-break space, the space separators of Unicode,
\* the line and the paragraph separator, the byte order mark).
WhiteSpace ==
    {" ", "\t", "\n", "\r", "\f", "", " ", "U+1680", "U+2000", "U+2001", "U+2002",
     "U+2003", "U+2004", "U+2005", "U+2006", "U+2007", "U+2008", "U+2009", "U+200A",
     "U+2028", "U+2029", "U+202F", "U+205F", "U+3000", "U+FEFF"}

\* The line terminators other than the line feed: the dot of a regular expression
\* does not match them and $ with the flag m matches before them.
LineTerminators == {"\r", "U+2028", "U+2029"}

\* A maximal run of letters and underscores: identifier, keyword, type name, or
\* the part of one between its digits.
W(str) == [k |-> "w", s |-> str, n |-> 0]
\* A maximal run of digits; n is its parseInt value.
N(str, val) == [k |-> "num", s |-> str, n |-> val]
\* One punctuation mark ("//", "/*" and "*/" are one mark each).
P(str) == [k |-> "p", s |-> str, n |-> 0]
\* One whitespace character other than the line feed that ends a line of
\* code.split('\n'); s is the character.
Space(ch) == [k |-> "sp", s |-> ch, n |-> 0]
\* One blank.
SP == Space(" ")
\* One carriage return, one line separator, one paragraph separator.
CR == Space("\r")
LS == Space("U+2028")
PS == Space("U+2029")

\* \w matches the characters of word and number tokens.
IsWord(t) == t.k \in {"w", "num"}
IsSp(t) == t.k = "sp"

RECURSIVE TextOf(_)
\* The text of a run of word and number tokens.
TextOf(toks) == IF Len(toks) = 0 THEN "" ELSE toks[1].s \o TextOf(SubSeq(toks, 2, Len(toks)))

\* The characters of a token: the one character of a whitespace token, else the
\* characters of its text.
TokenChars(t) == IF t.k = "sp" THEN << t.s >> ELSE Chars(t.s)

\* JavaScript's null / undefined for a string-valued field.
NULL == "<null>"

\* String.prototype.includes, startsWith and endsWith on the text of a token.
Includes(str, sub) ==
    \E i \in 1..(Len(str) - Len(sub) + 1) : SubSeq(str, i, i + Len(sub) - 1) = sub
StartsWith(str, lit) == Len(str) >= Len(lit) /\ SubSeq(str, 1, Len(lit)) = lit
\* A regex literal at the start of a pattern is not anchored at a word boundary:
\* it matches the end of a word token.
EndsWith(str, lit) ==
    Len(str) >= Len(lit) /\ SubSeq(str, Len(str) - Len(lit) + 1, Len(str)) = lit

\* --------------------------------------------------------- sequence helpers

RECURSIVE SeqsUpTo(_, _)
\* All sequences over S of length at most n.
SeqsUpTo(S, n) ==
    IF n = 0 THEN {<<>>}
    ELSE LET shorter == SeqsUpTo(S, n - 1)
         IN  shorter \cup {Append(q, x) : q \in {r \in shorter : Len(r) = n - 1}, x \in S}

RECURSIVE Flatten(_)
Flatten(ss) == IF ss = <<>> THEN <<>> ELSE Head(ss) \o Flatten(Tail(ss))

RECURSIVE SumSeq(_)
SumSeq(q) == IF q = <<>> THEN 0 ELSE Head(q) + SumSeq(Tail(q))

Last(q) == q[Len(q)]
Front(q) == SubSeq(q, 1, Len(q) - 1)

\* ------------------------------------------------ regular expressions on tokens
\*
\* A pattern is a sequence of atoms [a, s, set, c]:
\*   a = "w"     \w+          a run of word tokens           (c: capture group)
\*   a = "lit"   literal      the token whose text is s
\*   a = "in"    (x|y|z)      a word token whose text is in set   (c: capture)
\*   a = "bin"   \b(x|y|z)    the same, with no word token right before it
\*   a = "suf"   literal at the start of a pattern: a word token ending in s
\*   a = "sp*"   \s*          any run of whitespace tokens
\*   a = "sp+"   \s+          a non-empty run of whitespace tokens
\*   a = "not*"  [^s]*        any run of tokens other than s      (c: capture)
\*   a = "not+"  [^s]+        a non-empty run of tokens other than s
\*   a = "opt"   s?           the token s or nothing
\*   a = "d"     \d+          one number token               (c: capture group)
\* Quantifiers are greedy: the alternatives are tried longest first, as the
\* backtracking matcher of the JavaScript engine tries them, and the first that
\* lets the rest of the pattern match is taken.

Atom(kind, str, cap) == [a |-> kind, s |-> str, set |-> {}, c |-> cap]
AtomIn(strs, cap) == [a |-> "in", s |-> "", set |-> strs, c |-> cap]
AtomWordIn(strs, cap) == [a |-> "bin", s |-> "", set |-> strs, c |-> cap]

NoCaps == [g \in 1..3 |-> <<0, 0>>]

SetCap(caps, g, from, to) == IF g = 0 THEN caps ELSE [caps EXCEPT ![g] = <<from, to>>]

RECURSIVE RunEnd(_, _, _)
\* The index after the longest run of tokens other than `stop` that starts at i.
RunEnd(toks, i, stop) ==
    IF i > Len(toks) \/ (toks[i].k = "p" /\ toks[i].s = stop) THEN i
    ELSE RunEnd(toks, i + 1, stop)

RECURSIVE WordEnd(_, _)
\* The index after the longest run of word tokens that starts at i.
WordEnd(toks, i) ==
    IF i > Len(toks) \/ ~IsWord(toks[i]) THEN i ELSE WordEnd(toks, i + 1)

RECURSIVE SpaceEnd(_, _)
\* The index after the longest run of whitespace tokens that starts at i.
SpaceEnd(toks, i) ==
    IF i > Len(toks) \/ ~IsSp(toks[i]) THEN i ELSE SpaceEnd(toks, i + 1)

Fail == [ok |-> FALSE, end |-> 0, caps |-> NoCaps]

RECURSIVE MatchFrom(_, _, _, _, _)
\* The match of atoms k.. of pat at token i that the engine finds first, or Fail.
MatchFrom(pat, k, toks, i, caps) ==
    IF k > Len(pat) THEN [ok |-> TRUE, end |-> i, caps |-> caps]
    ELSE
      LET at == pat[k]
          here == i <= Len(toks)
          step(j, cs) == MatchFrom(pat, k + 1, toks, j, cs)
          \* the token at i, or else nothing
          greedy == LET one == step(i + 1, caps) IN IF one.ok THEN one ELSE step(i, caps)
          RECURSIVE Shrink(_, _)
          \* the run i..j-1, or else shorter and shorter runs down to length `least`
          Shrink(j, least) ==
              IF j - i < least THEN Fail
              ELSE LET run == step(j, SetCap(caps, at.c, i, j - 1))
                   IN  IF run.ok THEN run ELSE Shrink(j - 1, least)
      IN CASE at.a = "w" -> Shrink(WordEnd(toks, i), 1)
           [] at.a = "d" ->
                IF here /\ toks[i].k = "num" THEN step(i + 1, SetCap(caps, at.c, i, i)) ELSE Fail
           [] at.a = "lit" ->
                IF here /\ toks[i].k # "sp" /\ toks[i].s = at.s THEN step(i + 1, caps) ELSE Fail
           [] at.a = "in" ->
                IF here /\ IsWord(toks[i]) /\ toks[i].s \in at.set
                THEN step(i + 1, SetCap(caps, at.c, i, i)) ELSE Fail
           [] at.a = "bin" ->
                IF here /\ IsWord(toks[i]) /\ toks[i].s \in at.set /\ (i = 1 \/ ~IsWord(toks[i - 1]))
                THEN step(i + 1, SetCap(caps, at.c, i, i)) ELSE Fail
           [] at.a = "suf" ->
                IF here /\ IsWord(toks[i]) /\ EndsWith(toks[i].s, at.s) THEN step(i + 1, caps) ELSE Fail
           [] at.a = "sp*" -> Shrink(SpaceEnd(toks, i), 0)
           [] at.a = "sp+" -> Shrink(SpaceEnd(toks, i), 1)
           [] at.a = "not*" -> Shrink(RunEnd(toks, i, at.s), 0)
           [] at.a = "not+" -> Shrink(RunEnd(toks, i, at.s), 1)
           [] at.a = "opt" ->
                IF here /\ toks[i].k = "p" /\ toks[i].s = at.s THEN greedy ELSE step(i, caps)

NoMatch == [found |-> FALSE, at |-> 0, end |-> 0, caps |-> NoCaps]

RECURSIVE SearchFrom(_, _, _)
SearchFrom(pat, toks, i) ==
    IF i > Len(toks) THEN NoMatch
    ELSE LET m == MatchFrom(pat, 1, toks, i, NoCaps)
         IN  IF m.ok THEN [found |-> TRUE, at |-> i, end |-> m.end, caps |-> m.caps]
             ELSE SearchFrom(pat, toks, i + 1)

\* String.prototype.match without the g flag: the leftmost match.
RegexMatch(pat, toks) == SearchFrom(pat, toks, 1)

\* The tokens of capture group g ('' when the group did not take part).
Group(m, toks, g) ==
    IF m.caps[g][1] = 0 THEN <<>> ELSE SubSeq(toks, m.caps[g][1], m.caps[g][2])

\* The text of a capture group that holds word tokens.
GroupWord(m, toks, g) == TextOf(Group(m, toks, g))

\* ------------------------------------------------------------ sample lines

\* void make() {
LineFunction ==
    << W("void"), SP, W("make"), P("("), P(")"), SP, P("{") >>
\* for (;;) {
LineLoop ==
    << W("for"), SP, P("("), P(";"), P(";"), P(")"), SP, P("{") >>
\* }
LineClose == << P("}") >>
\* p = malloc(8);
LineAllocP ==
    << W("p"), SP, P("="), SP, W("malloc"), P("("), N("8", 8), P(")"), P(";") >>
\* q = new int;
LineAllocQ ==
    << W("q"), SP, P("="), SP, W("new"), SP, W("int"), P(";") >>
\* free(p);
LineFreeP == << W("free"), P("("), W("p"), P(")"), P(";") >>
\* delete q;
LineFreeQ == << W("delete"), SP, W("q"), P(";") >>

\* The lines the analysed sources are made of.
SampleLines ==
    {LineFunction, LineLoop, LineClose, LineAllocP, LineAllocQ, LineFreeP, LineFreeQ}

\* p = malloc(5 * sizeof(int));
LineSizeofInt ==
    << W("p"), SP, P("="), SP, W("malloc"), P("("), N("5", 5), SP, P("*"), SP,
       W("sizeof"), P("("), W("int"), P(")"), P(")"), P(";") >>
\* p = malloc(sizeof(double) * 3);
LineSizeofDouble ==
    << W("p"), SP, P("="), SP, W("malloc"), P("("), W("sizeof"), P("("), W("double"), P(")"),
       SP, P("*"), SP, N("3", 3), P(")"), P(";") >>
\* int *a = new int[8];
LineNewArray ==
    << W("int"), SP, P("*"), W("a"), SP, P("="), SP, W("new"), SP, W("int"),
       P("["), N("8", 8), P("]"), P(";") >>
\* char *buffer = malloc(100);
LineBuffer ==
    << W("char"), SP, P("*"), W("buffer"), SP, P("="), SP, W("malloc"), P("("),
       N("100", 100), P(")"), P(";") >>

\* The lines of the sources whose sizes are looked at.
SizeLines == {LineSizeofInt, LineSizeofDouble, LineNewArray, LineBuffer, LineFreeP}

\* strcpy(a, b);
LineStrcpy ==
    << W("strcpy"), P("("), W("a"), P(","), SP, W("b"), P(")"), P(";") >>
\* strcpy(a, b); strncpy(a, b, 8);
LineBoth ==
    LineStrcpy \o << SP, W("strncpy"), P("("), W("a"), P(","), SP, W("b"), P(","), SP,
                     N("8", 8), P(")"), P(";") >>
\* // strcpy(a, b);
LineCommented == << P("//"), SP >> \o LineStrcpy
\* /* old:
LineCommentOpen == << P("/*"), SP, W("old"), P(":") >>
\* strcpy(a, b); */
LineCommentClose == LineStrcpy \o << SP, P("*/") >>

\* The pieces the sources with comments are made of: a block comment of two
\* lines, a line comment, and lines of code.
CommentChunks ==
    { << LineCommentOpen, LineCommentClose >>, << LineCommented >>, << LineStrcpy >>,
      << LineBoth >>, << LineAllocP >>, << LineFreeP >> }

\* p =
LineAssign == << W("p"), SP, P("=") >>
\* malloc(8);
LineCall == << W("malloc"), P("("), N("8", 8), P(")"), P(";") >>
\* the empty line
LineBlank == << >>
\* free(p); p = malloc(8);
LineFreeAlloc == LineFreeP \o << SP >> \o LineAllocP
\* free(p)
LineFreeOpen == << W("free"), P("("), W("p"), P(")") >>
\* delete
LineDelete == << W("delete") >>
\* q;
LineQ == << W("q"), P(";") >>

\* delete[] a;
LineDeleteArray == << W("delete"), P("["), P("]"), SP, W("a"), P(";") >>

\* The lines of the sources whose statements run over several lines.
StatementLines ==
    {LineAssign, LineCall, LineBlank, LineFreeAlloc, LineFreeOpen, LineDelete, LineQ}

\* ------------------------------------------------------------ ASTParser

NL == [k |-> "nl", s |-> "\n", n |-> 0]

\* The first index >= i of the punctuation mark `mark` in toks, 0 when there is none.
IndexOfMark(toks, i, mark) ==
    LET marks == {j \in i..Len(toks) : toks[j].k = "p" /\ toks[j].s = mark}
    IN  IF marks = {} THEN 0 ELSE CHOOSE j \in marks : \A k \in marks : j <= k

RECURSIVE JoinLines(_)
\* The text of a sequence of lines: the lines with a line break between them.
JoinLines(lines) ==
    IF Len(lines) = 1 THEN lines[1]
    ELSE lines[1] \o <<NL>> \o JoinLines(Tail(lines))

RECURSIVE SplitLines(_)
\* String.prototype.split('\n').
SplitLines(toks) ==
    LET RECURSIVE FirstNL(_)
        FirstNL(i) == IF i > Len(toks) THEN 0 ELSE IF toks[i].k = "nl" THEN i ELSE FirstNL(i + 1)
        at == FirstNL(1)
    IN  IF at = 0 THEN <<toks>>
        ELSE <<SubSeq(toks, 1, at - 1)>> \o SplitLines(SubSeq(toks, at + 1, Len(toks)))

\* A line terminator within a line of code.split('\n'): a carriage return, a
\* line separator or a paragraph separator.  The dot of a regular expression does
\* not match it, and $ with the flag m matches before it.
IsLineEnd(t) == IsSp(t) /\ t.s \in LineTerminators

RECURSIVE StripLineComment(_)
\* /\/\/.*$/gm on one line: each "//" goes with the text up to the next line
\* terminator or the end of the line; the terminator and what follows it stay.
StripLineComment(line) ==
    LET at == IndexOfMark(line, 1, "//")
        ends == {i \in (at + 1)..Len(line) : IsLineEnd(line[i])}
        end == IF ends = {} THEN 0 ELSE CHOOSE i \in ends : \A j \in ends : i <= j
    IN  IF at = 0 THEN line
        ELSE IF end = 0 THEN SubSeq(line, 1, at - 1)
        ELSE SubSeq(line, 1, at - 1) \o StripLineComment(SubSeq(line, end, Len(line)))

RECURSIVE StripBlockComments(_)
\* /\/\*[\s\S]*?\*\//g: every "/*" up to the next "*/", line breaks included.
StripBlockComments(toks) ==
    LET open == IndexOfMark(toks, 1, "/*")
        close == IF open = 0 THEN 0 ELSE IndexOfMark(toks, open + 1, "*/")
    IN  IF close = 0 THEN toks
        ELSE SubSeq(toks, 1, open - 1)
                 \o StripBlockComments(SubSeq(toks, close + 1, Len(toks)))

\* Two tokens that stand side by side in the text are one token: two runs of
\* letters, or two runs of digits.
Joinable(a, b) == IsWord(a) /\ a.k = b.k

RECURSIVE Pow10(_)
Pow10(n) == IF n = 0 THEN 1 ELSE 10 * Pow10(n - 1)

\* The token two joinable tokens make: its text is their texts one after the
\* other.
Joined(a, b) ==
    IF a.k = "num" /\ b.k = "num" THEN N(a.s \o b.s, a.n * Pow10(Len(b.s)) + b.n)
    ELSE W(a.s \o b.s)

RECURSIVE JoinedRun(_)
JoinedRun(run) == IF Len(run) = 1 THEN run[1] ELSE Joined(run[1], JoinedRun(Tail(run)))

\* The tokens of the text a removed comment leaves: what stood before and after
\* the comment is one token when both are letters or both are digits.
MergeTokens(toks) ==
    LET starts == SelectSeq([i \in 1..Len(toks) |-> i],
                            LAMBDA i : i = 1 \/ ~Joinable(toks[i - 1], toks[i]))
        end(k) == IF k < Len(starts) THEN starts[k + 1] - 1 ELSE Len(toks)
    IN  [k \in 1..Len(starts) |-> JoinedRun(SubSeq(toks, starts[k], end(k)))]

\* ASTParser.removeComments: the single-line comments first, then the block comments.
removeComments(lines) ==
    SplitLines(MergeTokens(StripBlockComments(
        JoinLines([i \in 1..Len(lines) |-> StripLineComment(lines[i])]))))

RECURSIVE TrimLeft(_)
TrimLeft(toks) == IF toks # <<>> /\ IsSp(Head(toks)) THEN TrimLeft(Tail(toks)) ELSE toks

RECURSIVE TrimRight(_)
TrimRight(toks) == IF toks # <<>> /\ IsSp(Last(toks)) THEN TrimRight(Front(toks)) ELSE toks

\* String.prototype.trim.
Trim(toks) == TrimRight(TrimLeft(toks))

\* currentStatement + ' ' + trimmed, for a blank line too.
AppendToStatement(stmt, trimmed) == stmt \o << SP >> \o trimmed

HasMark(toks, mark) == IndexOfMark(toks, 1, mark) # 0

\* (trimmed.match(/\{/g) || []).length and the like.
CountMark(toks, mark) == Cardinality({i \in 1..Len(toks) : toks[i].k = "p" /\ toks[i].s = mark})

AllocFunctions == {"malloc", "calloc", "realloc"}

\* \s*=\s*(malloc|calloc|realloc)\s*\(\s*([^)]+)\s*\)
CallTail ==
    << Atom("sp*", "", 0), Atom("lit", "=", 0), Atom("sp*", "", 0), AtomIn(AllocFunctions, 2),
       Atom("sp*", "", 0), Atom("lit", "(", 0), Atom("sp*", "", 0), Atom("not+", ")", 3),
       Atom("sp*", "", 0), Atom("lit", ")", 0) >>

\* The allocation patterns of parseCAllocation, in the order they are tried.
CAllocPatterns ==
    << \* type *var = malloc(...)
       << Atom("w", "", 0), Atom("sp+", "", 0), Atom("lit", "*", 0), Atom("sp*", "", 0),
          Atom("w", "", 1) >> \o CallTail,
       \* type* var = malloc(...)
       << Atom("w", "", 0), Atom("lit", "*", 0), Atom("sp*", "", 0), Atom("w", "", 1) >> \o CallTail,
       \* var = (type*)malloc(...)
       << Atom("w", "", 1), Atom("sp*", "", 0), Atom("lit", "=", 0), Atom("sp*", "", 0),
          Atom("lit", "(", 0), Atom("not*", ")", 0), Atom("lit", ")", 0), Atom("sp*", "", 0),
          AtomIn(AllocFunctions, 2), Atom("sp*", "", 0), Atom("lit", "(", 0), Atom("sp*", "", 0),
          Atom("not+", ")", 3), Atom("sp*", "", 0), Atom("lit", ")", 0) >>,
       \* var = malloc(...)
       << Atom("w", "", 1) >> \o CallTail >>

\* type *var   and   type* var   and   var, each followed by  = new T
DeclSpaced ==
    << Atom("w", "", 0), Atom("sp+", "", 0), Atom("lit", "*", 0), Atom("sp*", "", 0), Atom("w", "", 1) >>
DeclTight ==
    << Atom("w", "", 0), Atom("lit", "*", 0), Atom("sp*", "", 0), Atom("w", "", 1) >>
DeclBare == << Atom("w", "", 1) >>
NewType ==
    << Atom("sp*", "", 0), Atom("lit", "=", 0), Atom("sp*", "", 0), Atom("lit", "new", 0),
       Atom("sp+", "", 0), Atom("w", "", 0) >>
\* \s*\(\s*([^)]*)\s*\)
CtorArgs ==
    << Atom("sp*", "", 0), Atom("lit", "(", 0), Atom("sp*", "", 0), Atom("not*", ")", 2),
       Atom("sp*", "", 0), Atom("lit", ")", 0) >>
\* \s*\[\s*([^\]]+)\s*\]
ArraySize ==
    << Atom("sp*", "", 0), Atom("lit", "[", 0), Atom("sp*", "", 0), Atom("not+", "]", 2),
       Atom("sp*", "", 0), Atom("lit", "]", 0) >>

\* The C++ new patterns of parseCAllocation, in the order they are tried.
CppAllocPatterns ==
    << DeclSpaced \o NewType \o CtorArgs,
       DeclTight \o NewType \o CtorArgs,
       DeclSpaced \o NewType,
       DeclTight \o NewType,
       DeclSpaced \o NewType \o ArraySize,
       DeclTight \o NewType \o ArraySize,
       DeclBare \o NewType \o CtorArgs,
       DeclBare \o NewType,
       DeclBare \o NewType \o ArraySize >>

RECURSIVE FirstPattern(_, _, _)
\* for (const pattern of patterns): the match of the first pattern that matches.
FirstPattern(pats, toks, k) ==
    IF k > Len(pats) THEN NoMatch
    ELSE LET m == RegexMatch(pats[k], toks)
         IN  IF m.found THEN m ELSE FirstPattern(pats, toks, k + 1)

NoNode ==
    [type |-> "None", var |-> NULL, line |-> 0, function |-> NULL, args |-> <<>>,
     functionName |-> NULL, inLoop |-> FALSE, originalLine |-> <<>>]

\* What the patterns of parseCAllocation find in a statement: the variable, the
\* allocation function and the argument text.
AllocMatch(line) ==
    LET m == FirstPattern(CAllocPatterns, line, 1)
        mm == FirstPattern(CppAllocPatterns, line, 1)
        isArray == HasMark(line, "[") /\ HasMark(line, "]")
    IN  IF m.found
        THEN [found |-> TRUE, var |-> GroupWord(m, line, 1), function |-> GroupWord(m, line, 2),
              args |-> Group(m, line, 3)]
        ELSE IF mm.found
        THEN [found |-> TRUE, var |-> GroupWord(mm, line, 1),
              function |-> IF isArray THEN "new[]" ELSE "new", args |-> Group(mm, line, 2)]
        ELSE [found |-> FALSE, var |-> NULL, function |-> NULL, args |-> <<>>]

\* free\s*\(\s*(\w+)\s*\)
FreePattern ==
    << Atom("suf", "free", 0), Atom("sp*", "", 0), Atom("lit", "(", 0), Atom("sp*", "", 0),
       Atom("w", "", 1), Atom("sp*", "", 0), Atom("lit", ")", 0) >>
\* delete\s*\[\s*\]\s*(?:\(\s*)?(\w+)(?:\s*\))?
DeleteArrayPattern ==
    << Atom("suf", "delete", 0), Atom("sp*", "", 0), Atom("lit", "[", 0), Atom("sp*", "", 0),
       Atom("lit", "]", 0), Atom("sp*", "", 0), Atom("opt", "(", 0), Atom("sp*", "", 0),
       Atom("w", "", 1) >>
\* delete\s+(?:\(\s*)?(\w+)(?:\s*\))?
DeletePattern ==
    << Atom("suf", "delete", 0), Atom("sp+", "", 0), Atom("opt", "(", 0), Atom("sp*", "", 0),
       Atom("w", "", 1) >>

\* What the patterns of parseCDeallocation find in a statement: free first, then
\* delete[], then delete.
DeallocMatch(line) ==
    LET f == RegexMatch(FreePattern, line)
        da == RegexMatch(DeleteArrayPattern, line)
        d == RegexMatch(DeletePattern, line)
    IN  IF f.found THEN [found |-> TRUE, var |-> GroupWord(f, line, 1), function |-> "free"]
        ELSE IF da.found THEN [found |-> TRUE, var |-> GroupWord(da, line, 1), function |-> "delete[]"]
        ELSE IF d.found THEN [found |-> TRUE, var |-> GroupWord(d, line, 1), function |-> "delete"]
        ELSE [found |-> FALSE, var |-> NULL, function |-> NULL]

\* /(\w+)\s*\([^)]*\)\s*\{?/
FuncPattern ==
    << Atom("w", "", 1), Atom("sp*", "", 0), Atom("lit", "(", 0), Atom("not*", ")", 0),
       Atom("lit", ")", 0), Atom("sp*", "", 0), Atom("opt", "{", 0) >>
\* /\b(if|while|for|switch)\s*\(/
ControlPattern ==
    << AtomWordIn({"if", "while", "for", "switch"}, 0), Atom("sp*", "", 0), Atom("lit", "(", 0) >>
\* /\b(for|while|do)\s*\(/
LoopPattern ==
    << AtomWordIn({"for", "while", "do"}, 0), Atom("sp*", "", 0), Atom("lit", "(", 0) >>

\* "Detect function definitions": the name funcMatch[1] when the line matches the
\* function pattern and holds no if/while/for/switch header, else NULL.
FunctionHeader(trimmed) ==
    LET funcMatch == RegexMatch(FuncPattern, trimmed)
    IN  IF funcMatch.found /\ ~RegexMatch(ControlPattern, trimmed).found
        THEN GroupWord(funcMatch, trimmed, 1) ELSE NULL

\* ASTParser.parseCAllocation: the Allocation node of a statement, or NoNode (null).
parseCAllocation(line, lineNum, originalLine, functionName, inLoop) ==
    LET m == AllocMatch(line)
    IN  IF m.found
        THEN [type |-> "Allocation", var |-> m.var, line |-> lineNum, function |-> m.function,
              args |-> m.args, functionName |-> functionName, inLoop |-> inLoop,
              originalLine |-> Trim(originalLine)]
        ELSE NoNode

\* ASTParser.parseCDeallocation: the Deallocation node of a statement, or NoNode (null).
parseCDeallocation(line, lineNum, originalLine) ==
    LET m == DeallocMatch(line)
    IN  IF m.found
        THEN [type |-> "Deallocation", var |-> m.var, line |-> lineNum, function |-> m.function,
              args |-> <<>>, functionName |-> NULL, inLoop |-> FALSE,
              originalLine |-> Trim(originalLine)]
        ELSE NoNode

\* The local variables of parseC before the first line.
ParseCInit ==
    [nodes |-> <<>>, currentFunction |-> NULL, braceDepth |-> 0, inLoop |-> FALSE,
     loopDepth |-> 0, currentStatement |-> <<>>, statementStartLine |-> 0, inStatement |-> FALSE]

\* A variant: the deallocation of a statement is pushed before its allocation.
PushNodesDeallocFirst(nodes, alloc, dealloc) ==
    (IF dealloc.type = "None" THEN nodes ELSE Append(nodes, dealloc))
        \o (IF alloc.type = "None" THEN <<>> ELSE <<alloc>>)

\* nodes.push(alloc) when alloc is not null; the same for dealloc.
PushNodes(nodes, alloc, dealloc) ==
    (IF alloc.type = "None" THEN nodes ELSE Append(nodes, alloc))
        \o (IF dealloc.type = "None" THEN <<>> ELSE <<dealloc>>)

\* "Detect scope end": at brace depth 0 one loop level and the function are left.
ScopeEnd(st) ==
    IF st.braceDepth # 0 THEN st
    ELSE LET depth == IF st.inLoop /\ st.loopDepth > 0 THEN st.loopDepth - 1 ELSE st.loopDepth
             loop == IF st.inLoop /\ st.loopDepth > 0 /\ depth = 0 THEN FALSE ELSE st.inLoop
         IN  [st EXCEPT !.loopDepth = depth, !.inLoop = loop, !.currentFunction = NULL]

\* statementStartLine || lineNum
StatementLine(statementStartLine, lineNum) ==
    IF statementStartLine # 0 THEN statementStartLine ELSE lineNum

\* One turn of the lines.forEach callback of parseC.
ParseCLine(st, line, lineNum) ==
    LET trimmed == Trim(line)
        header == FunctionHeader(trimmed)
        loopHeader == RegexMatch(LoopPattern, trimmed).found
        fn == IF header # NULL THEN header ELSE st.currentFunction
        loop == IF loopHeader THEN TRUE ELSE st.inLoop
        depth == IF loopHeader THEN st.loopDepth + 1 ELSE st.loopDepth
        s1 == [st EXCEPT !.currentFunction = fn, !.inLoop = loop, !.loopDepth = depth,
                         !.braceDepth = @ + CountMark(trimmed, "{") - CountMark(trimmed, "}")]
        final == Last(trimmed)
        continues == \/ (final.k = "p" /\ final.s = "\\")
                     \/ ~(final.k = "p" /\ final.s \in {";", "{", "}"})
    IN  IF trimmed = <<>>
        THEN IF st.inStatement
             THEN [st EXCEPT !.currentStatement = AppendToStatement(st.currentStatement, <<>>)]
             ELSE st
        ELSE IF continues
        THEN IF ~st.inStatement
             THEN [s1 EXCEPT !.currentStatement = trimmed, !.statementStartLine = lineNum,
                             !.inStatement = TRUE]
             ELSE [s1 EXCEPT !.currentStatement = AppendToStatement(st.currentStatement, trimmed)]
        ELSE IF st.inStatement
        THEN LET completeStatement == AppendToStatement(st.currentStatement, trimmed)
                 at == StatementLine(st.statementStartLine, lineNum)
             IN  ScopeEnd([s1 EXCEPT
                     !.nodes = PushNodes(st.nodes,
                                         parseCAllocation(completeStatement, at, line, fn, loop),
                                         parseCDeallocation(completeStatement, at, line)),
                     !.inStatement = FALSE, !.currentStatement = <<>>, !.statementStartLine = 0])
        ELSE ScopeEnd([s1 EXCEPT
                 !.nodes = PushNodes(st.nodes, parseCAllocation(trimmed, lineNum, line, fn, loop),
                                     parseCDeallocation(trimmed, lineNum, line))])

RECURSIVE ParseCFrom(_, _, _)
ParseCFrom(st, lines, i) ==
    IF i > Len(lines) THEN st ELSE ParseCFrom(ParseCLine(st, lines[i], i), lines, i + 1)

\* ASTParser.parseC: the nodes of the cleaned code, in the order they are pushed.
parseC(lines) == ParseCFrom(ParseCInit, lines, 1).nodes

\* ASTParser.parse for every language but javascript: the switch sends c and cpp to
\* parseC and every other tag through parseGeneric to parseC.
parse(lines) == parseC(removeComments(lines))

\* ------------------------------------------------------------ ASTParser, javascript
\*
\* With the Acorn library on the page, parseJavaScript hands the cleaned code to
\* acorn.parse and walks the ESTree it returns.  The tree is a record per node:
\* type, the fields of that type, and line for loc.start.line.

\* The values evaluateExpr returns: a number, a string (its characters), null.
JsNumber(n) == [k |-> "number", n |-> n, s |-> ""]
JsString(chars) == [k |-> "string", n |-> 0, s |-> chars]
JsNull == [k |-> "null", n |-> 0, s |-> ""]

Identifier(name) == [type |-> "Identifier", name |-> name]
\* [x]: a binding pattern has no name
ArrayPattern(name) == [type |-> "ArrayPattern", elements |-> << Identifier(name) >>]
Literal(value) == [type |-> "Literal", value |-> value]
BinaryExpression(operator, left, right) ==
    [type |-> "BinaryExpression", operator |-> operator, left |-> left, right |-> right]
ArrayExpression(elements) == [type |-> "ArrayExpression", elements |-> elements]
ObjectExpression(properties) == [type |-> "ObjectExpression", properties |-> properties]
NewExpression(callee, arguments) ==
    [type |-> "NewExpression", callee |-> callee, arguments |-> arguments]
VariableDeclarator(id, init) == [type |-> "VariableDeclarator", id |-> id, init |-> init]
VariableDeclaration(declarations, line) ==
    [type |-> "VariableDeclaration", declarations |-> declarations, line |-> line]
AssignmentExpression(left, right, line) ==
    [type |-> "AssignmentExpression", left |-> left, right |-> right, line |-> line]
ExpressionStatement(expression) == [type |-> "ExpressionStatement", expression |-> expression]
Program(body) == [type |-> "Program", body |-> body]

\* var a = [], a = {};
JsLineArrays ==
    << W("var"), SP, W("a"), SP, P("="), SP, P("["), P("]"), P(","), SP,
       W("a"), SP, P("="), SP, P("{"), P("}"), P(";") >>
\* a = null;
JsLineNullA == << W("a"), SP, P("="), SP, W("null"), P(";") >>
\* var [b] = new Array(2 * 3);
JsLinePattern ==
    << W("var"), SP, P("["), W("b"), P("]"), SP, P("="), SP, W("new"), SP, W("Array"),
       P("("), N("2", 2), SP, P("*"), SP, N("3", 3), P(")"), P(";") >>
\* var b = new Map();
JsLineNewB ==
    << W("var"), SP, W("b"), SP, P("="), SP, W("new"), SP, W("Map"), P("("), P(")"), P(";") >>
\* b = null;
JsLineNullB == << W("b"), SP, P("="), SP, W("null"), P(";") >>

\* The lines the analysed javascript sources are made of.
JsSampleLines == {JsLineArrays, JsLineNullA, JsLinePattern, JsLineNewB, JsLineNullB}

\* The statement acorn.parse returns for a sample line that stands on line n, none
\* for an empty line.  Acorn is the library the page loads; its result is given
\* for these lines and for no other text.
AcornStatement(line, n) ==
    CASE line = JsLineArrays ->
           << VariableDeclaration(<< VariableDeclarator(Identifier("a"), ArrayExpression(<<>>)),
                                     VariableDeclarator(Identifier("a"), ObjectExpression(<<>>)) >>, n) >>
      [] line = JsLineNullA ->
           << ExpressionStatement(AssignmentExpression(Identifier("a"), Literal(JsNull), n)) >>
      [] line = JsLinePattern ->
           << VariableDeclaration(
                  << VariableDeclarator(ArrayPattern("b"),
                         NewExpression(Identifier("Array"),
                             << BinaryExpression("*", Literal(JsNumber(2)), Literal(JsNumber(3))) >>)) >>,
                  n) >>
      [] line = JsLineNewB ->
           << VariableDeclaration(
                  << VariableDeclarator(Identifier("b"), NewExpression(Identifier("Map"), <<>>)) >>, n) >>
      [] line = JsLineNullB ->
           << ExpressionStatement(AssignmentExpression(Identifier("b"), Literal(JsNull), n)) >>
      [] line = <<>> -> <<>>

RECURSIVE SplitAtLineEnds(_)
\* The pieces of a line of code.split('\n') between its line terminators.
SplitAtLineEnds(toks) ==
    LET ends == {i \in 1..Len(toks) : IsLineEnd(toks[i])}
        at == IF ends = {} THEN 0 ELSE CHOOSE i \in ends : \A j \in ends : i <= j
    IN  IF at = 0 THEN << toks >>
        ELSE << SubSeq(toks, 1, at - 1) >> \o SplitAtLineEnds(SubSeq(toks, at + 1, Len(toks)))

\* The lines acorn counts for loc: besides the line feed, a carriage return, a
\* line separator and a paragraph separator end a line; a carriage return with
\* the line feed right after it is one line break.
AcornLines(lines) ==
    Flatten([i \in 1..Len(lines) |->
                SplitAtLineEnds(IF i < Len(lines) /\ lines[i] # <<>> /\ Last(lines[i]) = CR
                                THEN Front(lines[i]) ELSE lines[i])])

\* acorn.parse(code, {locations: true, ...}) for a text made of sample lines.
AcornParse(lines) ==
    LET counted == AcornLines(lines)
    IN  Program(Flatten([i \in 1..Len(counted) |-> AcornStatement(Trim(counted[i]), i)]))

RECURSIVE evaluateExpr(_)
\* convertAcornAST's evaluateExpr: the value of a literal, the name of an
\* identifier, the product or sum of two numbers, else null.
evaluateExpr(node) ==
    CASE node.type = "Literal" -> node.value
      [] node.type = "Identifier" -> JsString(Chars(node.name))
      [] node.type = "BinaryExpression" ->
           LET left == evaluateExpr(node.left)
               right == evaluateExpr(node.right)
           IN  IF left.k = "number" /\ right.k = "number" /\ node.operator = "*"
               THEN JsNumber(left.n * right.n)
               ELSE IF left.k = "number" /\ right.k = "number" /\ node.operator = "+"
               THEN JsNumber(left.n + right.n)
               ELSE JsNull
      [] OTHER -> JsNull

\* decl.id ? decl.id.name : 'unknown'  (a pattern has no name: undefined)
NameOf(id) == IF id.type = "Identifier" THEN id.name ELSE NULL

\* A node convertAcornAST pushes; argv is the array it puts in args.
AcornNode(type, var, line, function, argv) ==
    [type |-> type, var |-> var, line |-> line, function |-> function, args |-> <<>>,
     functionName |-> NULL, inLoop |-> FALSE, originalLine |-> <<>>, argv |-> argv]

\* The Allocation nodes one declarator pushes: one per kind of initialiser.
DeclaratorNodes(decl, line) ==
    CASE decl.init.type = "NewExpression" ->
           << AcornNode("Allocation", NameOf(decl.id), line,
                        IF decl.init.callee.type = "Identifier" THEN decl.init.callee.name ELSE "new",
                        [i \in 1..Len(decl.init.arguments) |-> evaluateExpr(decl.init.arguments[i])]) >>
      [] decl.init.type = "ArrayExpression" ->
           << AcornNode("Allocation", NameOf(decl.id), line, "Array",
                        << JsNumber(Len(decl.init.elements)) >>) >>
      [] decl.init.type = "ObjectExpression" ->
           << AcornNode("Allocation", NameOf(decl.id), line, "Object",
                        << JsNumber(Len(decl.init.properties)) >>) >>
      [] OTHER -> <<>>

\* The nodes traverse pushes at a node, before it goes into the children.
Pushed(node) ==
    CASE node.type = "VariableDeclaration" ->
           Flatten([d \in 1..Len(node.declarations) |->
                       DeclaratorNodes(node.declarations[d], node.line)])
      [] node.type = "AssignmentExpression" ->
           IF node.right.type = "Literal" /\ node.right.value.k = "null"
                  /\ node.left.type = "Identifier"
           THEN << AcornNode("Deallocation", node.left.name, node.line, "null", <<>>) >>
           ELSE <<>>
      [] OTHER -> <<>>

\* for (const key in node): the children of a node, in the order of its keys.
Children(node) ==
    CASE node.type = "Program" -> node.body
      [] node.type = "VariableDeclaration" -> node.declarations
      [] node.type = "VariableDeclarator" -> << node.id, node.init >>
      [] node.type = "ExpressionStatement" -> << node.expression >>
      [] node.type = "AssignmentExpression" -> << node.left, node.right >>
      [] node.type = "BinaryExpression" -> << node.left, node.right >>
      [] node.type = "NewExpression" -> << node.callee >> \o node.arguments
      [] node.type \in {"ArrayExpression", "ArrayPattern"} -> node.elements
      [] node.type = "ObjectExpression" -> node.properties
      [] OTHER -> <<>>

RECURSIVE traverse(_)
\* convertAcornAST's traverse: the nodes pushed in the subtree of a node.
traverse(node) ==
    LET children == Children(node)
    IN  Pushed(node) \o Flatten([c \in 1..Len(children) |-> traverse(children[c])])

\* ASTParser.convertAcornAST: the body of the program it returns.
convertAcornAST(acornAST) == traverse(acornAST)

\* ASTParser.parse for javascript when acorn is defined and parses the code.
parseJavaScript(lines) == convertAcornAST(AcornParse(removeComments(lines)))

\* The lines of the sources analysed under the other language tags.
LanguageLines == {JsLineArrays, LineBuffer, LineNewArray, LineDeleteArray, LineCommented}

\* The sample lines that are no JavaScript: a declaration of a pointer and a
\* delete[] are syntax errors to acorn.parse.
NotJavaScript == {LineBuffer, LineNewArray, LineDeleteArray}

\* acorn.parse throws on the cleaned code: some line of it is a syntax error.
AcornThrows(cleaned) ==
    LET counted == AcornLines(cleaned)
    IN  \E i \in 1..Len(counted) : Trim(counted[i]) \in NotJavaScript

\* acorn.parse returns a tree for the cleaned code: every line of it is a sample
\* line of JavaScript or empty.
AcornParses(cleaned) ==
    LET counted == AcornLines(cleaned)
    IN  \A i \in 1..Len(counted) : Trim(counted[i]) \in JsSampleLines \cup {<<>>}

\* The global acorn: the library is on the page, or typeof acorn is 'undefined'.
AcornStates == {"loaded", "undefined"}

\* The method the switch of ASTParser.parse calls for the tag of the parser.
ParserOf(lang) ==
    CASE lang = "javascript" -> "parseJavaScript"
      [] lang \in {"c", "cpp"} -> "parseC"
      [] lang = "python" -> "parsePython"
      [] lang = "java" -> "parseJava"
      [] lang = "rust" -> "parseRust"
      [] lang = "go" -> "parseGo"
      [] OTHER -> "parseGeneric"

\* A variant: the methods have no parser to hand the code on to.
CallsNothing(method) == "none"

\* The method a parser method hands the code on to: parseGeneric calls parseC
\* ("Use C parser as fallback"); parsePython, parseJava, parseRust, parseGo and the
\* fallback of parseJavaScript call parseGeneric.
Calls(method) == IF method = "parseGeneric" THEN "parseC" ELSE "parseGeneric"

RECURSIVE RunParser(_, _, _)
\* The body a parser method returns for the cleaned code (with acorn on the page,
\* for a code acorn.parse is known to parse or to throw on).  parseJavaScript returns
\* the tree of acorn when acorn is there and parses the code, else it falls back.
RunParser(method, acornState, cleaned) ==
    CASE method = "parseC" -> parseC(cleaned)
      [] method = "parseJavaScript" /\ acornState = "loaded" /\ ~AcornThrows(cleaned) ->
           (CASE AcornParses(cleaned) -> convertAcornAST(AcornParse(cleaned)))
      [] method = "none" -> <<>>
      [] OTHER -> RunParser(Calls(method), acornState, cleaned)

\* throw new Error('Invalid code input: code must be a non-empty string')
ParseThrows == [threw |-> TRUE, body |-> <<>>]

\* The outer try block of ASTParser.parse: the throw for a code that is empty or
\* no string, else the switch over this.language.
ParseTry(lang, acornState, c) ==
    IF c.kind # "string" \/ c.lines = << <<>> >>
    THEN ParseThrows
    ELSE [threw |-> FALSE, body |-> RunParser(ParserOf(lang), acornState, removeComments(c.lines))]

\* The outer catch of ASTParser.parse: "Last resort: return empty AST instead of
\* throwing".
ParseCatch(result) == IF result.threw THEN [threw |-> FALSE, body |-> <<>>] ELSE result

\* ASTParser.parse of a parser constructed for lang.
parseIn(lang, acornState, c) == ParseCatch(ParseTry(lang, acornState, c))

\* ------------------------------------------------------------ CONFIG

TYPE_SIZES_CHAR == 1
TYPE_SIZES_INT == 4
TYPE_SIZES_DOUBLE == 8
TYPE_SIZES_DEFAULT == 4

\* CONFIG.LANGUAGE_SIZES[language] || CONFIG.TYPE_SIZES.DEFAULT
LanguageSize(language) ==
    IF language \in {"javascript", "python", "rust", "go"} THEN 8 ELSE TYPE_SIZES_DEFAULT

\* ------------------------------------------------------------ MemoryAnalyzer

\* text.includes(sub) for a sub made of letters: a word of the text holds it.
HasWordWith(toks, sub) == \E i \in 1..Len(toks) : toks[i].k = "w" /\ Includes(toks[i].s, sub)

\* parseInt(text) || 1 for a captured \d+.
CountOf(tok) == IF tok.n = 0 THEN 1 ELSE tok.n

\* /sizeof\s*\(([^)]+)\)/
SizeofTypePattern ==
    << Atom("suf", "sizeof", 0), Atom("sp*", "", 0), Atom("lit", "(", 0), Atom("not+", ")", 1),
       Atom("lit", ")", 0) >>

\* MemoryAnalyzer.getTypeSize
getTypeSize(args) ==
    LET m == RegexMatch(SizeofTypePattern, args)
        type == Trim(Group(m, args, 1))
        \* type.includes('long long'): one blank between the two words
        longlong == \E i \in 1..(Len(type) - 2) :
                        /\ type[i].k = "w" /\ EndsWith(type[i].s, "long")
                        /\ type[i + 1] = SP
                        /\ type[i + 2].k = "w" /\ StartsWith(type[i + 2].s, "long")
    IN  IF m.found /\ HasWordWith(type, "char") THEN TYPE_SIZES_CHAR
        ELSE IF m.found /\ (HasWordWith(type, "int") \/ HasWordWith(type, "float")) THEN TYPE_SIZES_INT
        ELSE IF m.found /\ (HasWordWith(type, "double") \/ longlong) THEN TYPE_SIZES_DOUBLE
        ELSE IF HasWordWith(args, "char") THEN TYPE_SIZES_CHAR
        ELSE IF HasWordWith(args, "int") \/ HasWordWith(args, "float") THEN TYPE_SIZES_INT
        ELSE IF HasWordWith(args, "double") THEN TYPE_SIZES_DOUBLE
        ELSE TYPE_SIZES_DEFAULT

\* /(\d+)\s*,\s*(\d+)/
CallocPattern ==
    << Atom("d", "", 1), Atom("sp*", "", 0), Atom("lit", ",", 0), Atom("sp*", "", 0),
       Atom("d", "", 2) >>
\* /(\d+)\s*\*\s*sizeof\s*\([^)]+\)/
SizeofPattern1 ==
    << Atom("d", "", 1), Atom("sp*", "", 0), Atom("lit", "*", 0), Atom("sp*", "", 0),
       Atom("lit", "sizeof", 0), Atom("sp*", "", 0), Atom("lit", "(", 0), Atom("not+", ")", 0),
       Atom("lit", ")", 0) >>
\* /sizeof\s*\([^)]+\)\s*\*\s*(\d+)/
SizeofPattern2 ==
    << Atom("suf", "sizeof", 0), Atom("sp*", "", 0), Atom("lit", "(", 0), Atom("not+", ")", 0),
       Atom("lit", ")", 0), Atom("sp*", "", 0), Atom("lit", "*", 0), Atom("sp*", "", 0),
       Atom("d", "", 1) >>
\* /(\d+)/
NumberPattern == << Atom("d", "", 1) >>

\* Array.isArray(astNode.args): the nodes of convertAcornAST carry an array.
IsArrayArgs(astNode) == "argv" \in DOMAIN astNode

\* const size = astNode.args[0] || 1; typeof size === 'number' ? size : 1
FirstNumberOr1(argv) ==
    IF argv # <<>> /\ argv[1].k = "number" /\ argv[1].n # 0 THEN argv[1].n ELSE 1

\* The value of a digit in the radices up to 16, 16 for any other character.
DigitOf(c) ==
    CASE c = "0" -> 0 [] c = "1" -> 1 [] c = "2" -> 2 [] c = "3" -> 3 [] c = "4" -> 4
      [] c = "5" -> 5 [] c = "6" -> 6 [] c = "7" -> 7 [] c = "8" -> 8 [] c = "9" -> 9
      [] c \in {"a", "A"} -> 10 [] c \in {"b", "B"} -> 11 [] c \in {"c", "C"} -> 12
      [] c \in {"d", "D"} -> 13 [] c \in {"e", "E"} -> 14 [] c \in {"f", "F"} -> 15
      [] OTHER -> 16

RECURSIVE DigitsFrom(_, _, _, _)
\* The value in the radix of the run of digits of str that starts at i, after the
\* value acc.
DigitsFrom(str, i, radix, acc) ==
    IF i > Len(str) \/ DigitOf(str[i]) >= radix THEN acc
    ELSE DigitsFrom(str, i + 1, radix, radix * acc + DigitOf(str[i]))

RECURSIVE FirstNonBlank(_, _)
FirstNonBlank(str, i) ==
    IF i <= Len(str) /\ str[i] \in WhiteSpace THEN FirstNonBlank(str, i + 1) ELSE i

\* parseInt(str) || 1 for a string: leading whitespace, a sign, 0x or 0X for
\* radix 16, then the digits; NaN and 0 give 1.
ParseIntStringOr1(str) ==
    LET at == FirstNonBlank(str, 1)
        sign == IF at <= Len(str) THEN str[at] ELSE ""
        from == IF sign \in {"-", "+"} THEN at + 1 ELSE at
        hex == from + 1 <= Len(str) /\ str[from] = "0" /\ str[from + 1] \in {"x", "X"}
        digits == IF hex THEN DigitsFrom(str, from + 2, 16, 0) ELSE DigitsFrom(str, from, 10, 0)
        value == IF sign = "-" THEN 0 - digits ELSE digits
    IN  IF value = 0 THEN 1 ELSE value

\* parseInt(args) || 1 for an argument text: the text is read character by
\* character.
ParseIntOr1(args) ==
    ParseIntStringOr1(Flatten([i \in 1..Len(args) |-> TokenChars(args[i])]))

\* const sizeArg = astNode.args[0] for an array; typeof sizeArg === 'number' ?
\* sizeArg : parseInt(sizeArg) || 1   (the number 0 stays 0)
FirstArgSize(argv) ==
    IF argv = <<>> THEN 1
    ELSE IF argv[1].k = "number" THEN argv[1].n
    ELSE IF argv[1].k = "string" THEN ParseIntStringOr1(argv[1].s)
    ELSE 1

\* MemoryAnalyzer.calculateSizeFromAST; args is the argument text
\* processASTAllocation hands over.  The branches for c and cpp read it; the
\* other branches read astNode.args: the first element of an array, else the text.
calculateSizeFromAST(language, astNode, args) ==
    LET callocMatch == RegexMatch(CallocPattern, args)
        sizeof1 == RegexMatch(SizeofPattern1, args)
        sizeof2 == RegexMatch(SizeofPattern2, args)
        numMatch == RegexMatch(NumberPattern, args)
    IN  IF language \in {"c", "cpp"}
        THEN IF astNode.function = "calloc" /\ callocMatch.found
             THEN CountOf(args[callocMatch.caps[1][1]]) * CountOf(args[callocMatch.caps[2][1]])
             ELSE IF sizeof1.found THEN CountOf(args[sizeof1.caps[1][1]]) * getTypeSize(args)
             ELSE IF sizeof2.found THEN CountOf(args[sizeof2.caps[1][1]]) * getTypeSize(args)
             ELSE IF numMatch.found THEN CountOf(args[numMatch.caps[1][1]])
             ELSE IF language = "cpp" /\ astNode.function = "new" THEN TYPE_SIZES_DEFAULT
             ELSE 1
        ELSE IF language = "javascript"
             THEN IF IsArrayArgs(astNode)
                  THEN FirstNumberOr1(astNode.argv) * LanguageSize(language)
                  ELSE LanguageSize(language)
        ELSE IF language \in {"python", "rust", "go", "java"}
             THEN IF IsArrayArgs(astNode)
                  THEN FirstArgSize(astNode.argv) * LanguageSize(language)
                  \* astNode.args || '1'
                  ELSE ParseIntOr1(IF astNode.args = <<>> THEN << N("1", 1) >> ELSE astNode.args)
                           * LanguageSize(language)
        ELSE 1

\* MemoryAnalyzer.getLineFromCode
getLineFromCode(lines, lineNum) ==
    IF lineNum \in 1..Len(lines) THEN lines[lineNum] ELSE <<>>

\* `${astNode.var}_line${astNode.line}_${Date.now()}`
AllocId(var, line, time) == [var |-> var, line |-> line, time |-> time]
\* freedAlloc.allocId || '' when the record has no id.
NoAllocId == [var |-> "", line |-> 0, time |-> 0]

\* The characters \w matches that are not digits.
Letters ==
    {"a", "b", "c", "d", "e", "f", "g", "h", "i", "j", "k", "l", "m", "n", "o", "p",
     "q", "r", "s", "t", "u", "v", "w", "x", "y", "z", "A", "B", "C", "D", "E", "F",
     "G", "H", "I", "J", "K", "L", "M", "N", "O", "P", "Q", "R", "S", "T", "U", "V",
     "W", "X", "Y", "Z", "_"}

IsDigitChar(c) == DigitOf(c) < 10
IsLetter(c) == c \in Letters

\* The last character of the run of digits (of letters) that starts at i.
DigitRunEnd(str, i) ==
    CHOOSE e \in i..Len(str) :
        /\ \A j \in i..e : IsDigitChar(str[j])
        /\ (e = Len(str) \/ ~IsDigitChar(str[e + 1]))
LetterRunEnd(str, i) ==
    CHOOSE e \in i..Len(str) :
        /\ \A j \in i..e : IsLetter(str[j])
        /\ (e = Len(str) \/ ~IsLetter(str[e + 1]))

RECURSIVE TextTokens(_, _)
\* The characters of a string from the i-th on, as the tokens the patterns read:
\* a run of digits, a run of letters, one whitespace character, one other
\* character.
TextTokens(str, i) ==
    IF i > Len(str) THEN <<>>
    ELSE LET c == str[i] IN
         IF c \in WhiteSpace THEN << Space(c) >> \o TextTokens(str, i + 1)
         ELSE IF IsDigitChar(c)
         THEN LET e == DigitRunEnd(str, i)
              IN  << N(Concat(SubSeq(str, i, e)), DigitsFrom(str, i, 10, 0)) >>
                      \o TextTokens(str, e + 1)
         ELSE IF IsLetter(c)
         THEN LET e == LetterRunEnd(str, i)
              IN  << W(Concat(SubSeq(str, i, e))) >> \o TextTokens(str, e + 1)
         ELSE << P(c) >> \o TextTokens(str, i + 1)

\* String(value) of an element of an array of arguments, as tokens: the digits of
\* a number, the text of a string, nothing for null.
ArgText(value) ==
    CASE value.k = "number" ->
           IF value.n < 0 THEN << P("-"), N(ToString(0 - value.n), 0 - value.n) >>
           ELSE << N(ToString(value.n), value.n) >>
      [] value.k = "string" -> TextTokens(value.s, 1)
      [] OTHER -> <<>>

RECURSIVE JoinArgs(_)
\* astNode.args.join(', ')
JoinArgs(argv) ==
    IF argv = <<>> THEN <<>>
    ELSE IF Len(argv) = 1 THEN ArgText(argv[1])
    ELSE ArgText(argv[1]) \o << P(","), SP >> \o JoinArgs(Tail(argv))

\* Array.isArray(astNode.args) ? astNode.args.join(', ') : (astNode.args || '')
ArgsText(astNode) == IF IsArrayArgs(astNode) THEN JoinArgs(astNode.argv) ELSE astNode.args

\* MemoryAnalyzer.processASTAllocation; time is the value Date.now() returns.
processASTAllocation(language, astNode, originalCode, time) ==
    [var |-> astNode.var,
     line |-> astNode.line,
     function |-> astNode.function,
     size |-> calculateSizeFromAST(language, astNode, ArgsText(astNode)),
     lineText |-> IF astNode.originalLine # <<>> THEN astNode.originalLine
                  ELSE getLineFromCode(originalCode, astNode.line),
     inLoop |-> astNode.inLoop,
     \* astNode.inFunction || false: no parser sets inFunction
     inFunction |-> IF "inFunction" \in DOMAIN astNode THEN astNode.inFunction ELSE FALSE,
     functionName |-> astNode.functionName,
     allocId |-> AllocId(astNode.var, astNode.line, time),
     language |-> language]

\* MemoryAnalyzer.processASTDeallocation
processASTDeallocation(language, astNode, originalCode) ==
    [var |-> astNode.var,
     line |-> astNode.line,
     lineText |-> IF astNode.originalLine # <<>> THEN astNode.originalLine
                  ELSE getLineFromCode(originalCode, astNode.line),
     language |-> language,
     isArray |-> astNode.function = "delete[]"]

\* --- this.allocations: a Map, which iterates its keys in the order they were inserted

EmptyMap == <<>>
MapIndex(m, key) ==
    IF \E i \in 1..Len(m) : m[i].key = key THEN CHOOSE i \in 1..Len(m) : m[i].key = key ELSE 0
\* Map.prototype.has
MapHas(m, key) == MapIndex(m, key) # 0
\* Map.prototype.get of a key the map has
MapGet(m, key) == m[MapIndex(m, key)].val
\* Map.prototype.set: a new key goes last, a known key keeps its place
MapSet(m, key, val) ==
    IF MapHas(m, key) THEN [m EXCEPT ![MapIndex(m, key)].val = val]
    ELSE Append(m, [key |-> key, val |-> val])
\* Map.prototype.delete
MapDelete(m, key) ==
    LET at == MapIndex(m, key)
    IN  IF at = 0 THEN m ELSE SubSeq(m, 1, at - 1) \o SubSeq(m, at + 1, Len(m))

\* --- the texts the engine builds

Message(text, arg) == [text |-> text, arg |-> arg]
Warning(type, line, message, lineText) ==
    [type |-> type, line |-> line, message |-> message, lineText |-> lineText]
\* A fix text by its template and the values put into it.
Fix(kind, var, functionName, line, prevLine) ==
    [kind |-> kind, var |-> var, functionName |-> functionName, line |-> line,
     prevLine |-> prevLine]

EmptyAnalysis ==
    [allocations |-> <<>>, frees |-> <<>>, leaks |-> <<>>, warnings |-> <<>>, timeline |-> <<>>]

\* --- handleAllocation (the analyzer's fields and the analysis object travel as
\* one record t = [allocations, currentMemory, analysis])

\* A variant: the Leak carries the line of the new allocation.
ReassignLeakAtNewLine(alloc, lastAlloc) ==
    [var |-> alloc.var, line |-> alloc.line, function |-> lastAlloc.function,
     size |-> lastAlloc.size, inLoop |-> lastAlloc.inLoop,
     fix |-> Fix("reassigned", alloc.var, NULL, alloc.line, lastAlloc.line)]

\* The Leak pushed for the record a reassignment overwrites (lines 261-268).
ReassignLeak(alloc, lastAlloc) ==
    [var |-> alloc.var, line |-> lastAlloc.line, function |-> lastAlloc.function,
     size |-> lastAlloc.size, inLoop |-> lastAlloc.inLoop,
     fix |-> Fix("reassigned", alloc.var, NULL, alloc.line, lastAlloc.line)]

\* this.currentMemory -= (lastAlloc.size || 0)   (line 272)
MemoryAfterReassign(currentMemory, lastAlloc) == currentMemory - lastAlloc.size

\* A variant: the overwritten record stays in the list.
PopRecordKept(existingAllocs) == existingAllocs

\* existingAllocs.pop()   (line 273)
PopRecord(existingAllocs) == Front(existingAllocs)

\* A variant: an event without a variable name is handled like any other.
NoVarIgnored(var) == FALSE

\* !alloc.var / !free.var: the variable name is missing or empty.
NoVar(var) == var \in {NULL, ""}

\* MemoryAnalyzer.handleAllocation
handleAllocation(t, alloc) ==
    IF NoVar(alloc.var) THEN t
    ELSE
      LET existingAllocs == MapGet(t.allocations, alloc.var)
          reassigned == MapHas(t.allocations, alloc.var) /\ Len(existingAllocs) > 0
          lastAlloc == Last(existingAllocs)
          t1 == IF reassigned
                THEN [t EXCEPT !.analysis.leaks = Append(@, ReassignLeak(alloc, lastAlloc)),
                               !.currentMemory = MemoryAfterReassign(@, lastAlloc),
                               !.allocations = MapSet(@, alloc.var, PopRecord(existingAllocs))]
                ELSE t
          m2 == IF ~MapHas(t1.allocations, alloc.var)
                THEN MapSet(t1.allocations, alloc.var, <<>>) ELSE t1.allocations
      IN  [t1 EXCEPT !.allocations = MapSet(m2, alloc.var, Append(MapGet(m2, alloc.var), alloc)),
                     !.analysis.allocations = Append(@, alloc),
                     !.currentMemory = @ + alloc.size]

\* --- handleFree

\* A variant: the warning is filed under the type of the other branch.
PotentialDoubleFreeAsDoubleFree(free) ==
    Warning("Double Free", free.line,
            Message("free() called on which may not be allocated or already freed", free.var),
            free.lineText)

\* The warning for a free of a variable the map has no entry for (lines 302-307).
PotentialDoubleFree(free) ==
    Warning("Potential Double Free", free.line,
            Message("free() called on which may not be allocated or already freed", free.var),
            free.lineText)

\* The warning for a free of a variable whose entry holds no record (lines 315-320).
DoubleFree(free) ==
    Warning("Double Free", free.line,
            Message("free() called on which has already been freed", free.var), free.lineText)

\* A variant: the Free does not name the record it freed.
FreeRecordWithoutId(free, freedAlloc) ==
    [var |-> free.var, line |-> free.line, lineText |-> free.lineText,
     freedAllocId |-> NoAllocId]

\* The Free pushed for the popped record (lines 329-334).
FreeRecord(free, freedAlloc) ==
    [var |-> free.var, line |-> free.line, lineText |-> free.lineText,
     freedAllocId |-> freedAlloc.allocId]

\* A variant: the emptied entry stays in the map.
CleanUpKeepingEntry(m, var, allocs) == MapSet(m, var, allocs)

\* "Clean up if no more allocations for this variable" (lines 339-342).
CleanUp(m, var, allocs) == IF Len(allocs) = 0 THEN MapDelete(m, var) ELSE MapSet(m, var, allocs)

\* A variant: a free leaves the memory count as it is.
MemoryAfterFreeKept(currentMemory, freedAlloc) == currentMemory

\* this.currentMemory -= (freedAlloc.size || 0)   (line 336)
MemoryAfterFree(currentMemory, freedAlloc) == currentMemory - freedAlloc.size

\* MemoryAnalyzer.handleFree
handleFree(t, free) ==
    IF NoVar(free.var) THEN t
    ELSE IF ~MapHas(t.allocations, free.var)
    THEN [t EXCEPT !.analysis.warnings = Append(@, PotentialDoubleFree(free))]
    ELSE
      LET allocs == MapGet(t.allocations, free.var)
          freedAlloc == Last(allocs)
      IN  IF Len(allocs) = 0
          THEN [t EXCEPT !.analysis.warnings = Append(@, DoubleFree(free))]
          ELSE [t EXCEPT !.analysis.frees = Append(@, FreeRecord(free, freedAlloc)),
                         !.currentMemory = MemoryAfterFree(@, freedAlloc),
                         !.allocations = CleanUp(@, free.var, Front(allocs))]

\* --- detectCodeQualityIssues

\* line.includes('strcpy('): a word ending in strcpy with "(" right after it.
HasStrcpyCall(line) ==
    \E i \in 1..(Len(line) - 1) :
        IsWord(line[i]) /\ EndsWith(line[i].s, "strcpy") /\ line[i + 1].k = "p" /\ line[i + 1].s = "("

\* MemoryAnalyzer.detectCodeQualityIssues: the warnings one line adds.
detectCodeQualityIssues(line, lineNum, originalLine) ==
    IF line # <<>> /\ HasStrcpyCall(line) /\ ~HasWordWith(line, "strncpy")
    THEN << Warning("Unsafe Function", lineNum,
                    Message("strcpy() used without bounds checking", NULL), Trim(originalLine)) >>
    ELSE <<>>

\* A variant: the scan goes over the lines of the cleaned code.
QualityWarningsOfCleanedCode(lines) ==
    LET cleaned == removeComments(lines)
    IN  Flatten([i \in 1..Len(cleaned) |-> detectCodeQualityIssues(cleaned[i], i, cleaned[i])])

\* lines.forEach((line, index) => this.detectCodeQualityIssues(line, index + 1, line, analysis))
QualityWarnings(lines) ==
    Flatten([i \in 1..Len(lines) |-> detectCodeQualityIssues(lines[i], i, lines[i])])

\* --- findLeaks

\* The fix text of a residual record (lines 391-397).
fixMessage(alloc, varName) ==
    IF alloc.inLoop THEN Fix("loop", varName, NULL, 0, 0)
    ELSE IF alloc.inFunction /\ alloc.functionName # NULL /\ alloc.functionName # "main"
    THEN Fix("ownership", NULL, alloc.functionName, alloc.line, 0)
    ELSE Fix("generic", varName, NULL, 0, 0)

\* A variant: the Leak carries no size.
ResidualLeakWithoutSize(varName, alloc) ==
    [var |-> varName, line |-> alloc.line, function |-> alloc.function, size |-> 0,
     inLoop |-> alloc.inLoop, fix |-> fixMessage(alloc, varName)]

\* The Leak pushed for a residual record (lines 399-406).
ResidualLeak(varName, alloc) ==
    [var |-> varName, line |-> alloc.line, function |-> alloc.function, size |-> alloc.size,
     inLoop |-> alloc.inLoop, fix |-> fixMessage(alloc, varName)]

\* this.allocations.forEach((allocs, varName) => allocs.forEach(...)): the leaks in the
\* order they are pushed.
ResidualLeaks(m) ==
    Flatten([e \in 1..Len(m) |->
                [r \in 1..Len(m[e].val) |-> ResidualLeak(m[e].key, m[e].val[r])]])

\* MemoryAnalyzer.findLeaks
findLeaks(t) == [t EXCEPT !.analysis.leaks = @ \o ResidualLeaks(t.allocations)]

\* --- updateTimeline

\* The point pushed for a node (lines 419-422).
TimelinePoint(lineNum, memory) == [line |-> lineNum, memory |-> memory]

\* node.line || 1
NodeLine(node) == IF node.line = 0 THEN 1 ELSE node.line

\* --- performAnalysis

\* !code || typeof code !== 'string'
InvalidCode(c) == c.kind # "string" \/ c.lines = << <<>> >>

\* !language || typeof language !== 'string' ? 'c' : language
EffectiveLanguage(lang) == IF lang = NULL \/ lang = "" THEN "c" ELSE lang

\* The report the catch block of performAnalysis returns (lines 585-597).
ErrorReport(errorMessage) ==
    [EmptyAnalysis EXCEPT
        !.warnings = << Warning("Analysis Error", 0, Message("Analysis failed", errorMessage), <<>>) >>]

\* A variant: the error goes on to the caller.
Rethrow(errorMessage) == [outcome |-> "threw", report |-> EmptyAnalysis]

\* catch (error) { ... return {...} }: whatever is thrown inside performAnalysis ends
\* as a returned report.
CatchInPerformAnalysis(errorMessage) ==
    [outcome |-> "returned", report |-> ErrorReport(errorMessage)]

\* A variant: a point that repeats the memory value of the last one is not pushed.
updateTimelineOnChange(points, lineNum, memory) ==
    IF points # <<>> /\ Last(points).memory = memory THEN points
    ELSE Append(points, TimelinePoint(lineNum, memory))

\* MemoryAnalyzer.updateTimeline
updateTimeline(points, lineNum, memory) == Append(points, TimelinePoint(lineNum, memory))

\* ------------------------------------------------------------ bounds and inputs

\* The longest analysed source, in lines.
MaxLines == 4
\* The latest value Date.now() takes.
MaxClock == 1
\* The longest source analysed twice.
RepeatLines == 2
\* The longest javascript source, in lines.
MaxJsLines == 4
\* The longest source whose sizes are looked at, in lines.
MaxSizeLines == 3
\* The most pieces a source with comments is made of.
MaxChunks == 3
\* The longest source whose statements run over several lines, in lines.
MaxStatementLines == 4
\* The longest source analysed under the other language tags, in lines.
MaxLanguageLines == 3
\* The latest value Date.now() takes while the history is filled.
MaxHistoryClock == 1
\* The most calls of analyzeCode.
MaxCalls == 3
\* The latest time of the page's event loop, in ms.
MaxTime == 700
\* The time between two looks at the page, in ms.
TimeStep == 100
\* The longest text in the code editor, in lines.
EditorLines == 1

StringCode(lines) == [kind |-> "string", lines |-> lines]
\* '' : the one string that is falsy
EmptyString == StringCode(<< <<>> >>)
\* null, undefined
NullCode == [kind |-> "null", lines |-> << <<>> >>]
\* a number, an object: truthy, not a string
NumberCode == [kind |-> "number", lines |-> << <<>> >>]

Sources(n) == {StringCode(l) : l \in SeqsUpTo(SampleLines, n) \ {<<>>}}
InvalidInputs == {EmptyString, NullCode, NumberCode}
SizeSources(n) == {StringCode(l) : l \in SeqsUpTo(SizeLines, n) \ {<<>>}}
CommentSources(n) ==
    {StringCode(Flatten(chunks)) : chunks \in SeqsUpTo(CommentChunks, n) \ {<<>>}}
StatementSources(n) == {StringCode(l) : l \in SeqsUpTo(StatementLines, n) \ {<<>>}}
LanguageSources(n) == {StringCode(l) : l \in SeqsUpTo(LanguageLines, n) \ {<<>>}}
JsSources(n) == {StringCode(l) : l \in SeqsUpTo(JsSampleLines, n) \ {<<>>}}

\* A language tag, or NULL for a missing or non-string argument.
LanguageInputs == {"c", "cpp", NULL}
\* The tags of the other languages, and a tag the parser does not know.
OtherLanguages == {"javascript", "python", "java", "rust", "go", "kotlin"}

\* ------------------------------------------------------------ state

VARIABLES
    code,           \* performAnalysis's argument code
    language,       \* performAnalysis's argument language
    pc,             \* where the call stands: idle, nodes, leaks, return, done
    outcome,        \* of the call: none, returned, threw
    report,         \* the object performAnalysis returned
    astBody,        \* analyze: the nodes of the parsed code
    idx,            \* analyze: the node astBody.forEach is at
    analysis,       \* analyze: the analysis object being filled
    allocations,    \* this.allocations: varName -> records, in insertion order
    currentMemory,  \* this.currentMemory
    timeline,       \* this.timeline
    now,            \* the clock of the page, in ms: Date.now() and the timers read it
    run,            \* the calls of performAnalysis so far
    firstReport,    \* the report the first call returned
    isAnalyzing,    \* the page's flag isAnalyzing
    analysisTimeout,\* the page's analysisTimeout: the id of the last timer set, 0 for null
    timers,         \* the ids of the timers that are set and have neither fired nor been cleared
    running,        \* the runs of performAnalysisInternal past their validation and not yet at their end
    notice,         \* the last notification shown by analyzeCode, performAnalysisInternal or the history module
    calls,          \* the calls of analyzeCode so far
    acorn,          \* the global acorn of the page: loaded or undefined
    history,        \* localStorage, key mlda_analysis_history: the stored array
    lastHistoryCall,\* what the last call of the history module did
    dueAt,          \* the time at which each timer of timers is due
    callTimes,      \* the times of the calls of analyzeCode that set a timer
    fireTimes,      \* the times at which performAnalysisInternal was called
    button          \* the analyze button: enabled or disabled

\* The state of the page around the analysis.
\* The page's globals the analysis of c and cpp does not read.
envVars == << acorn, history, lastHistoryCall >>

\* The timers of the page as the event loop sees them, and the analyze button.
pageVars == << dueAt, callTimes, fireTimes, button >>

uiVars == << isAnalyzing, analysisTimeout, timers, running, notice, calls, envVars, pageVars >>

vars ==
    << code, language, pc, outcome, report, astBody, idx, analysis, allocations,
       currentMemory, timeline, now, run, firstReport, uiVars >>

\* The state of performAnalysis and of the analyzer it constructs.
analysisVars ==
    << code, language, pc, outcome, report, astBody, idx, analysis, allocations,
       currentMemory, timeline, now, run, firstReport >>

\* The analyzer's fields and the analysis object as the handlers take them.
Tracker == [allocations |-> allocations, currentMemory |-> currentMemory, analysis |-> analysis]

Init ==
    /\ code = NullCode
    /\ language = NULL
    /\ pc = "idle"
    /\ outcome = "none"
    /\ report = EmptyAnalysis
    /\ astBody = <<>>
    /\ idx = 0
    /\ analysis = EmptyAnalysis
    /\ allocations = EmptyMap
    /\ currentMemory = 0
    /\ timeline = <<>>
    /\ now = 0
    /\ run = 0
    /\ firstReport = EmptyAnalysis
    /\ isAnalyzing = FALSE
    /\ analysisTimeout = 0
    /\ timers = {}
    /\ running = 0
    /\ notice = "none"
    /\ calls = 0
    /\ acorn = "loaded"
    /\ history = <<>>
    /\ lastHistoryCall = "none"
    /\ dueAt = [id \in {} |-> 0]
    /\ callTimes = << >>
    /\ fireTimes = << >>
    /\ button = "enabled"

\* performAnalysis(c, lang) with code that is empty or not a string: the throw of
\* line 571 is caught at line 582; no analyzer is constructed.
Reject(c, lang) ==
    /\ InvalidCode(c)
    /\ code' = c
    /\ language' = lang
    /\ LET r == CatchInPerformAnalysis("Invalid code input: code must be a non-empty string")
       IN  outcome' = r.outcome /\ report' = r.report
    /\ pc' = "done"
    /\ run' = run + 1
    /\ UNCHANGED << astBody, idx, analysis, allocations, currentMemory, timeline, now >>

\* performAnalysis(c, lang) with a non-empty string: new MemoryAnalyzer(language), then
\* analyze up to the parsed body, which is `body`.
Begin(c, lang, body) ==
    /\ ~InvalidCode(c)
    /\ code' = c
    /\ language' = lang
    /\ allocations' = EmptyMap
    /\ currentMemory' = 0
    /\ timeline' = <<>>
    /\ analysis' = EmptyAnalysis
    /\ astBody' = body
    /\ idx' = 1
    /\ pc' = "nodes"
    /\ outcome' = "none"
    /\ report' = EmptyAnalysis
    /\ run' = run + 1
    /\ UNCHANGED now

\* The points at which a call of performAnalysis starts: before the first call, and,
\* where a second call is looked at, after the first has returned.
CallPoints(again) == IF again /\ run = 1 THEN {"idle", "done"} ELSE {"idle"}

\* The page calls performAnalysis with an invalid code argument; a second call takes
\* the arguments of the first.
RejectInvalidInputOf(again) ==
    /\ pc \in CallPoints(again)
    /\ \E c \in InvalidInputs, lang \in LanguageInputs :
         /\ pc = "done" => c = code /\ lang = language
         /\ Reject(c, lang)
    /\ firstReport' = IF pc = "done" THEN report ELSE firstReport
    /\ UNCHANGED uiVars

RejectInvalidInput == RejectInvalidInputOf(FALSE)

\* The page calls performAnalysis with a source of at most n lines; a second call
\* takes the arguments of the first.  (The parse does not read the language tag:
\* every tag but javascript ends in parseC.)
StartAnalysisOf(n, again) ==
    /\ pc \in CallPoints(again)
    /\ \E c \in Sources(n) :
         /\ pc = "done" => c = code
         /\ \E body \in {parse(c.lines)}, lang \in LanguageInputs :
              /\ pc = "done" => lang = language
              /\ Begin(c, lang, body)
    /\ firstReport' = IF pc = "done" THEN report ELSE firstReport
    /\ UNCHANGED uiVars

StartAnalysis == StartAnalysisOf(MaxLines, FALSE)

\* One turn of astBody.forEach for an Allocation node: processASTAllocation,
\* handleAllocation, updateTimeline.
ProcessAllocation ==
    /\ pc = "nodes"
    /\ idx <= Len(astBody)
    /\ astBody[idx].type = "Allocation"
    /\ LET alloc == processASTAllocation(EffectiveLanguage(language), astBody[idx], code.lines, now)
           t == handleAllocation(Tracker, alloc)
       IN  /\ allocations' = t.allocations
           /\ currentMemory' = t.currentMemory
           /\ analysis' = t.analysis
           /\ timeline' = updateTimeline(timeline, NodeLine(astBody[idx]), t.currentMemory)
    /\ idx' = idx + 1
    /\ UNCHANGED << code, language, pc, outcome, report, astBody, now, run, firstReport, uiVars >>

\* One turn of astBody.forEach for a Deallocation node: processASTDeallocation,
\* handleFree, updateTimeline.
ProcessDeallocation ==
    /\ pc = "nodes"
    /\ idx <= Len(astBody)
    /\ astBody[idx].type = "Deallocation"
    /\ LET free == processASTDeallocation(EffectiveLanguage(language), astBody[idx], code.lines)
           t == handleFree(Tracker, free)
       IN  /\ allocations' = t.allocations
           /\ currentMemory' = t.currentMemory
           /\ analysis' = t.analysis
           /\ timeline' = updateTimeline(timeline, NodeLine(astBody[idx]), t.currentMemory)
    /\ idx' = idx + 1
    /\ UNCHANGED << code, language, pc, outcome, report, astBody, now, run, firstReport, uiVars >>

\* After the last node: the code quality scan over the lines of the code as given.
DetectQuality ==
    /\ pc = "nodes"
    /\ idx > Len(astBody)
    /\ analysis' = [analysis EXCEPT !.warnings = @ \o QualityWarnings(code.lines)]
    /\ pc' = "leaks"
    /\ UNCHANGED << code, language, outcome, report, astBody, idx, allocations, currentMemory,
                    timeline, now, run, firstReport, uiVars >>

\* this.findLeaks(analysis)
FindLeaks ==
    /\ pc = "leaks"
    /\ analysis' = findLeaks(Tracker).analysis
    /\ pc' = "return"
    /\ UNCHANGED << code, language, outcome, report, astBody, idx, allocations, currentMemory,
                    timeline, now, run, firstReport, uiVars >>

\* analyze returns; analysis.timeline = analyzer.timeline; performAnalysis returns.
Return ==
    /\ pc = "return"
    /\ report' = [analysis EXCEPT !.timeline = timeline]
    /\ outcome' = "returned"
    /\ pc' = "done"
    /\ UNCHANGED << code, language, astBody, idx, analysis, allocations, currentMemory,
                    timeline, now, run, firstReport, uiVars >>

\* One analysis, within one tick of the clock.
Next ==
    \/ RejectInvalidInput
    \/ StartAnalysis
    \/ ProcessAllocation
    \/ ProcessDeallocation
    \/ DetectQuality
    \/ FindLeaks
    \/ Return

Spec == Init /\ [][Next]_vars

\* ------------------------------------------------------------ two calls, running clock

\* Time passes: Date.now() returns a later value from now on.
Tick ==
    /\ now < MaxClock
    /\ now' = now + 1
    /\ UNCHANGED << code, language, pc, outcome, report, astBody, idx, analysis, allocations,
                    currentMemory, timeline, run, firstReport, uiVars >>

\* Two calls of performAnalysis with the same arguments, the clock running.
NextRepeat ==
    \/ RejectInvalidInputOf(TRUE)
    \/ StartAnalysisOf(RepeatLines, TRUE)
    \/ ProcessAllocation
    \/ ProcessDeallocation
    \/ DetectQuality
    \/ FindLeaks
    \/ Return
    \/ Tick

SpecRepeat == Init /\ [][NextRepeat]_vars

\* ------------------------------------------------------------ javascript, with acorn

\* The page calls performAnalysis with a javascript source that acorn parses.
StartJavaScript ==
    /\ pc = "idle"
    /\ \E c \in JsSources(MaxJsLines) :
         \E body \in {parseJavaScript(c.lines)} : Begin(c, "javascript", body)
    /\ UNCHANGED << firstReport, uiVars >>

NextJs ==
    \/ StartJavaScript
    \/ ProcessAllocation
    \/ ProcessDeallocation
    \/ DetectQuality
    \/ FindLeaks
    \/ Return

SpecJs == Init /\ [][NextJs]_vars

\* ------------------------------------------------------------ reading a run

\* The nodes astBody.forEach has been through.
Processed == IF idx = 0 THEN 0 ELSE idx - 1

\* The variables the extracted events name.
EventVars == {astBody[i].var : i \in 1..Len(astBody)}

IsAlloc(i, v) == astBody[i].type = "Allocation" /\ astBody[i].var = v
IsFree(i, v) == astBody[i].type = "Deallocation" /\ astBody[i].var = v

\* The allocation / deallocation events of v among the first n events.
AllocEvents(v, n) == {i \in 1..n : IsAlloc(i, v)}
FreeEvents(v, n) == {i \in 1..n : IsFree(i, v)}

\* The last event of v among the first n events, 0 when there is none.
LastEvent(v, n) ==
    LET s == AllocEvents(v, n) \cup FreeEvents(v, n)
    IN  IF s = {} THEN 0 ELSE CHOOSE i \in s : \A j \in s : j <= i

\* Event j of v comes when v holds a record: the event of v before it is an allocation.
FoundActive(v, j) == LastEvent(v, j - 1) # 0 /\ IsAlloc(LastEvent(v, j - 1), v)

\* The records the map m holds for v.
ActiveIn(m, v) == IF MapHas(m, v) THEN MapGet(m, v) ELSE <<>>

\* The leaks of v pushed by handleAllocation, and those pushed by findLeaks.
ReassignedLeaks(leaks, v) == SelectSeq(leaks, LAMBDA l : l.var = v /\ l.fix.kind = "reassigned")
ResidualOf(leaks, v) == SelectSeq(leaks, LAMBDA l : l.var = v /\ l.fix.kind # "reassigned")
Residual(leaks) == SelectSeq(leaks, LAMBDA l : l.fix.kind # "reassigned")
LeaksOf(leaks, v) == SelectSeq(leaks, LAMBDA l : l.var = v)
FreesOf(frees, v) == SelectSeq(frees, LAMBDA f : f.var = v)

\* The call has got a valid source and has run to its return.
Finished == pc = "done" /\ ~InvalidCode(code) /\ outcome = "returned"

\* ------------------------------------------------------------ C1

\* In every prefix of the events the deallocations of v are no more than its allocations.
Balanced(v, n) ==
    \A k \in 1..n : Cardinality(FreeEvents(v, k)) <= Cardinality(AllocEvents(v, k))

\* C1 as stated: after N allocation events and M <= N deallocation events of a
\* variable the map holds N - M records for it, and findLeaks adds N - M leaks for it.
C1_ActiveIsAllocsMinusFrees ==
    \A v \in EventVars :
        LET n == Cardinality(AllocEvents(v, Processed))
            m == Cardinality(FreeEvents(v, Processed))
        IN  Balanced(v, Processed) =>
                /\ Len(ActiveIn(allocations, v)) = n - m
                /\ pc \in {"return", "done"} => Len(ResidualOf(analysis.leaks, v)) = n - m

\* C1 amended: after any events of a variable the map holds N - F - R records for
\* it, N its allocation events, F the Free records pushed for it (its deallocation
\* events that found a record) and R its reassignment leaks (its allocation events
\* that found a record); that is one record when its last event is an allocation
\* and none otherwise; findLeaks adds exactly that many leaks for it.
C1_ActiveIsAllocsMinusFreedAndReassigned ==
    \A v \in EventVars :
        LET n == Cardinality(AllocEvents(v, Processed))
            f == Len(FreesOf(analysis.frees, v))
            r == Len(ReassignedLeaks(analysis.leaks, v))
            last == LastEvent(v, Processed)
            active == Len(ActiveIn(allocations, v))
        IN  /\ f = Cardinality({j \in FreeEvents(v, Processed) : FoundActive(v, j)})
            /\ r = Cardinality({j \in AllocEvents(v, Processed) : FoundActive(v, j)})
            /\ active = n - f - r
            /\ active = IF last # 0 /\ IsAlloc(last, v) THEN 1 ELSE 0
            /\ pc \in {"return", "done"} => Len(ResidualOf(analysis.leaks, v)) = active

\* A finished run where a variable was allocated three times, reassigned once and
\* freed once, and leaves one residual leak.
C1_Witness ==
    /\ Finished
    /\ \E v \in EventVars :
         /\ Cardinality(AllocEvents(v, Len(astBody))) = 3
         /\ Len(FreesOf(report.frees, v)) = 1
         /\ Len(ReassignedLeaks(report.leaks, v)) = 1
         /\ Len(ResidualOf(report.leaks, v)) = 1

\* ------------------------------------------------------------ C2

\* The step handleAllocation takes for a variable that holds a record: one Leak for
\* it is pushed, carrying the line of the allocation event the record came from.
ReassignmentStep ==
    LET v == astBody[idx].var
        a == astBody[LastEvent(v, idx - 1)].line
    IN  ProcessAllocation /\ FoundActive(v, idx) =>
            /\ Len(analysis'.leaks) = Len(analysis.leaks) + 1
            /\ SubSeq(analysis'.leaks, 1, Len(analysis.leaks)) = analysis.leaks
            /\ Last(analysis'.leaks).var = v
            /\ Last(analysis'.leaks).line = a
            /\ Last(analysis'.leaks).fix.kind = "reassigned"

\* Events i < j are allocations of v with no event of v between them, j is the last
\* event of v, and no other allocation of v found a record.
ReallocatedOnce(v, i, j) ==
    /\ i < j /\ IsAlloc(i, v) /\ IsAlloc(j, v)
    /\ LastEvent(v, j - 1) = i
    /\ LastEvent(v, Len(astBody)) = j
    /\ {k \in AllocEvents(v, Len(astBody)) : FoundActive(v, k)} = {j}

\* The report then holds two leaks for v: line a first, line b second.
TwoLeaksAtReturn ==
    Finished =>
        \A v \in EventVars : \A i, j \in 1..Len(astBody) :
            ReallocatedOnce(v, i, j) =>
                LET ls == LeaksOf(report.leaks, v)
                IN  /\ Len(ls) = 2
                    /\ ls[1].line = astBody[i].line /\ ls[1].fix.kind = "reassigned"
                    /\ ls[2].line = astBody[j].line /\ ls[2].fix.kind # "reassigned"

\* C2: allocating v again at line b while it holds the record of line a pushes one
\* Leak of v with line a at once; when v is not freed afterwards findLeaks pushes
\* one more with line b, and the report holds exactly these two leaks of v.
C2_ReassignmentLeaksTwice == []TwoLeaksAtReturn /\ [][ReassignmentStep]_vars

\* A finished run with a variable allocated at a line and again at a later one.
C2_Witness ==
    /\ Finished
    /\ \E v \in EventVars : \E i, j \in 1..Len(astBody) :
         ReallocatedOnce(v, i, j) /\ Len(LeaksOf(report.leaks, v)) = 2

\* ------------------------------------------------------------ C3

\* The step handleFree takes for a variable that holds a record: the record of the
\* variable's latest allocation event leaves the map, one Free naming that record's
\* allocId is pushed, no leak is pushed.
FreeOfActiveStep ==
    LET v == astBody[idx].var
        records == ActiveIn(allocations, v)
        latest == astBody[LastEvent(v, idx - 1)]
    IN  ProcessDeallocation /\ records # <<>> =>
            /\ FoundActive(v, idx)
            /\ Last(records).line = latest.line
            /\ \A k \in 1..Len(records) : records[k].line <= Last(records).line
            /\ ActiveIn(allocations', v) = Front(records)
            /\ Len(analysis'.frees) = Len(analysis.frees) + 1
            /\ SubSeq(analysis'.frees, 1, Len(analysis.frees)) = analysis.frees
            /\ Last(analysis'.frees).var = v
            /\ Last(analysis'.frees).freedAllocId = Last(records).allocId
            /\ Last(analysis'.frees).freedAllocId # NoAllocId
            /\ analysis'.leaks = analysis.leaks

\* The events are: allocate v, free v.
AllocThenFree ==
    /\ Len(astBody) = 2
    /\ astBody[1].type = "Allocation"
    /\ IsFree(2, astBody[1].var)

RoundTrip ==
    Finished /\ AllocThenFree =>
        /\ report.leaks = <<>>
        /\ Len(report.frees) = 1
        /\ Len(report.allocations) = 1
        /\ report.frees[1].freedAllocId = report.allocations[1].allocId

\* C3: a deallocation of a variable that holds a record removes the most recently
\* pushed record of that variable and pushes exactly one Free whose freedAllocId is
\* that record's allocId; allocate v, free v gives no leak and one Free that names
\* the allocation.
C3_FreePopsLatestRecord == []RoundTrip /\ [][FreeOfActiveStep]_vars

\* A finished run of allocate v, free v.
C3_Witness == Finished /\ AllocThenFree /\ Len(report.frees) = 1

\* ------------------------------------------------------------ C4

\* The step handleFree takes for a variable the map has no entry for: one warning
\* of type 'Potential Double Free' is pushed, nothing else changes, and the loop
\* goes on to the next node.
FreeOfUntrackedStep ==
    LET v == astBody[idx].var
    IN  ProcessDeallocation /\ ~MapHas(allocations, v) =>
            /\ Len(analysis'.warnings) = Len(analysis.warnings) + 1
            /\ SubSeq(analysis'.warnings, 1, Len(analysis.warnings)) = analysis.warnings
            /\ Last(analysis'.warnings).type = "Potential Double Free"
            /\ Last(analysis'.warnings).line = astBody[idx].line
            /\ analysis'.leaks = analysis.leaks
            /\ analysis'.frees = analysis.frees
            /\ analysis'.allocations = analysis.allocations
            /\ allocations' = allocations
            /\ currentMemory' = currentMemory
            /\ pc' = "nodes" /\ idx' = idx + 1

\* Event i is a deallocation of a variable that holds no record at that time.
UntrackedFree(i) ==
    astBody[i].type = "Deallocation" /\ ~FoundActive(astBody[i].var, i)

\* Every event is accounted for in the report, whatever came before it.
EventsAfterUntrackedFree ==
    Finished =>
        /\ Len(report.allocations) =
               Cardinality({i \in 1..Len(astBody) : astBody[i].type = "Allocation"})
        /\ Len(report.frees) =
               Cardinality({i \in 1..Len(astBody) :
                               astBody[i].type = "Deallocation" /\ ~UntrackedFree(i)})
        /\ Len(SelectSeq(report.warnings, LAMBDA w : w.type = "Potential Double Free")) =
               Cardinality({i \in 1..Len(astBody) : UntrackedFree(i)})

\* C4: a deallocation of a variable with no entry in the map pushes exactly one
\* 'Potential Double Free' warning and leaves leaks, frees, allocations, the map and
\* currentMemory as they are; the events after it are processed as usual.
C4_UntrackedFreeOnlyWarns == []EventsAfterUntrackedFree /\ [][FreeOfUntrackedStep]_vars

\* A finished run where a variable is freed before it is allocated: the free gave
\* the warning, the allocation after it was recorded.
C4_Witness ==
    /\ Finished
    /\ \E i \in 1..(Len(astBody) - 1) :
         /\ UntrackedFree(i)
         /\ IsAlloc(i + 1, astBody[i].var)
         /\ \E k \in 1..Len(report.warnings) : report.warnings[k].line = astBody[i].line
         /\ \E k \in 1..Len(report.allocations) : report.allocations[k].line = astBody[i + 1].line

\* ------------------------------------------------------------ C5

\* A call with invalid code does not reach the analyzer: nothing of a tracker is
\* written.
RejectionStep ==
    run' = run + 1 /\ InvalidCode(code') =>
        UNCHANGED << allocations, currentMemory, timeline, analysis, astBody, idx >>

\* No call throws, and a call with invalid code returns the one-warning report.
ReturnsErrorReport ==
    /\ outcome # "threw"
    /\ pc = "done" => outcome = "returned"
    /\ pc = "done" /\ InvalidCode(code) =>
           /\ Len(report.warnings) = 1
           /\ report.warnings[1].type = "Analysis Error"
           /\ report.allocations = <<>>
           /\ report.frees = <<>>
           /\ report.leaks = <<>>
           /\ report.timeline = <<>>

\* C5: performAnalysis never throws; for code that is empty or not a string it
\* returns a report with exactly one 'Analysis Error' warning and empty
\* allocations, frees, leaks and timeline, and touches no tracker state.
C5_NeverThrows == []ReturnsErrorReport /\ [][RejectionStep]_vars

\* The call with the empty string has returned.
C5_Witness == pc = "done" /\ code = EmptyString /\ outcome = "returned" /\ Len(report.warnings) = 1

\* ------------------------------------------------------------ C6

\* The sum of the size fields of a sequence of records.
SumSizes(records) == SumSeq([i \in 1..Len(records) |-> records[i].size])

\* The size of the allocation a Free names.
FreedSize(allocs, free) ==
    SumSizes(SelectSeq(allocs, LAMBDA a : a.allocId = free.freedAllocId))

\* The sizes of the records freed so far.
SumFreed(a) == SumSeq([i \in 1..Len(a.frees) |-> FreedSize(a.allocations, a.frees[i])])

\* The sizes of the records leaked by reassignment so far.
SumReassigned(a) == SumSizes(SelectSeq(a.leaks, LAMBDA l : l.fix.kind = "reassigned"))

\* The sizes of the records the map holds.
SumActive(m) == SumSeq([e \in 1..Len(m) |-> SumSizes(m[e].val)])

\* C6 as stated: after every event the timeline value is the sum of the sizes of
\* the allocations processed so far minus the sum of the sizes of the records freed
\* so far; no leak is subtracted.
C6_LeaksNeverSubtract ==
    timeline # <<>> =>
        Last(timeline).memory = SumSizes(analysis.allocations) - SumFreed(analysis)

\* The memory count after the events processed so far.
MemoryIsActiveSizes ==
    /\ currentMemory = SumSizes(analysis.allocations) - SumFreed(analysis)
                           - SumReassigned(analysis)
    /\ currentMemory = SumActive(allocations)
    /\ timeline # <<>> /\ pc # "idle" => Last(timeline).memory = currentMemory

\* One point is pushed per step at most; findLeaks leaves the count and the
\* timeline as they are.
TimelineGrowsByOne ==
    /\ pc # "idle" => timeline' = timeline \/ Front(timeline') = timeline
    /\ FindLeaks => currentMemory' = currentMemory /\ timeline' = timeline

\* C6 amended: the residual leaks of findLeaks do not reduce the memory count, the
\* reassignment leak of handleAllocation does; after every event the timeline value
\* is the sum of the sizes of the allocations processed so far, minus the sizes of
\* the records freed so far, minus the sizes of the records leaked by reassignment
\* so far: the sizes of the records the map still holds.
C6_OnlyResidualLeaksStayCounted == []MemoryIsActiveSizes /\ [][TimelineGrowsByOne]_vars

\* A finished run with a reassignment leak, a free, and memory left at the end.
C6_Witness ==
    /\ Finished
    /\ SumReassigned(report) > 0
    /\ SumFreed(report) > 0
    /\ Last(report.timeline).memory > 0
    /\ Residual(report.leaks) # <<>>

\* ------------------------------------------------------------ C7

\* The step of astBody.forEach for one node pushes one point: the node's line and
\* the memory count the handler left.
TimelineStep ==
    ProcessAllocation \/ ProcessDeallocation =>
        timeline' = Append(timeline, [line |-> astBody[idx].line, memory |-> currentMemory'])

\* The timeline has one point per processed event, in the order of the events, and
\* the report returns the whole of it.
OnePointPerEvent ==
    /\ pc # "idle" /\ ~InvalidCode(code) =>
           /\ Len(timeline) = Processed
           /\ \A k \in 1..Processed : timeline[k].line = astBody[k].line
    /\ Finished =>
           /\ report.timeline = timeline
           /\ Len(report.timeline) = Len(astBody)

\* C7: the timeline of the returned report has exactly one point per extracted
\* Allocation / Deallocation event, in emission order, each with the event's line
\* and the memory count after the event was applied.
C7_TimelinePointPerEvent == []OnePointPerEvent /\ [][TimelineStep]_vars

\* A finished run of three events or more, allocations and deallocations among
\* them, one of them a free that leaves the memory count as it was.
C7_Witness ==
    /\ Finished
    /\ Len(report.timeline) >= 3
    /\ \E i, j \in 1..Len(astBody) :
         astBody[i].type = "Allocation" /\ astBody[j].type = "Deallocation"
    /\ \E k \in 2..Len(report.timeline) : report.timeline[k].memory = report.timeline[k - 1].memory

\* ------------------------------------------------------------ C8

\* The first allocation event of v.
FirstAllocated(v) == CHOOSE i \in AllocEvents(v, Len(astBody)) :
                         \A j \in AllocEvents(v, Len(astBody)) : i <= j

\* The allocation event that created the map entry v has at the end: the first
\* allocation of v that no deallocation of v follows.
EntryCreated(v) ==
    LET kept == {i \in AllocEvents(v, Len(astBody)) :
                    \A j \in FreeEvents(v, Len(astBody)) : j < i}
    IN  CHOOSE i \in kept : \A j \in kept : i <= j

\* C8 as stated: findLeaks emits the residual leaks grouped by variable, the
\* variables in the order of their first allocation ever, the records of one
\* variable oldest first.
C8_LeaksInFirstSeenOrder ==
    Finished =>
        LET res == Residual(report.leaks)
        IN  \A a, b \in 1..Len(res) :
                a < b =>
                    \/ FirstAllocated(res[a].var) < FirstAllocated(res[b].var)
                    \/ res[a].var = res[b].var /\ res[a].line <= res[b].line

\* C8 amended: findLeaks emits one residual leak for each variable whose last event
\* is an allocation, carrying the line of that allocation, the variables in the
\* order in which their present map entries were created; the entry of a variable
\* is created by its first allocation that no deallocation of it follows, so a
\* variable freed and allocated again comes after the variables allocated in
\* between.
C8_LeaksInEntryOrder ==
    Finished =>
        LET res == Residual(report.leaks)
            n == Len(astBody)
        IN  /\ {res[a].var : a \in 1..Len(res)} =
                   {v \in EventVars : LastEvent(v, n) # 0 /\ IsAlloc(LastEvent(v, n), v)}
            /\ \A a \in 1..Len(res) : res[a].line = astBody[LastEvent(res[a].var, n)].line
            /\ \A a, b \in 1..Len(res) :
                   a < b => EntryCreated(res[a].var) < EntryCreated(res[b].var)

\* A finished run with two residual leaks where the variable emitted second was
\* allocated first, freed, and allocated again after the other.
C8_Witness ==
    /\ Finished
    /\ LET res == Residual(report.leaks)
       IN  /\ Len(res) = 2
           /\ FirstAllocated(res[2].var) < FirstAllocated(res[1].var)
           /\ EntryCreated(res[1].var) < EntryCreated(res[2].var)

\* ------------------------------------------------------------ C9

\* The names parseC takes for a function when a line holds a call: the function
\* pattern matches `malloc(8)` and `free(p)` as it matches a function header.
CallNames == AllocFunctions \cup {"free"}

\* The fix text C9 asks for, for the residual record of allocation node `node`.
ExpectedFix(node) ==
    IF node.inLoop THEN "loop"
    ELSE IF node.functionName \notin ({NULL, "main"} \cup CallNames) THEN "ownership"
    ELSE "generic"

\* C9 as stated: a residual leak gets the loop text when the record is in a loop,
\* else the ownership-transfer text naming the function and the line when the
\* allocation was extracted inside a function other than main, else the generic
\* text.
C9_FixTextByContext ==
    Finished =>
        \A v \in EventVars :
            LET last == LastEvent(v, Len(astBody))
                res == ResidualOf(report.leaks, v)
            IN  IsAlloc(last, v) =>
                    /\ Len(res) = 1
                    /\ res[1].fix.kind = ExpectedFix(astBody[last])
                    /\ res[1].fix.kind = "ownership" =>
                           /\ res[1].fix.functionName = astBody[last].functionName
                           /\ res[1].fix.line = astBody[last].line

\* ------------------------------------------------------------ C10

\* C10 as stated: two calls of performAnalysis with the same code and language
\* return equal reports, allocId and freedAllocId included.
C10_SameInputSameReport ==
    run = 2 /\ pc = "done" => report = firstReport

\* ------------------------------------------------------------ sources of other lines

\* The page calls performAnalysis with one of the given sources.
StartAnalysisIn(sources) ==
    /\ pc = "idle"
    /\ \E c \in sources :
         \E body \in {parse(c.lines)}, lang \in LanguageInputs : Begin(c, lang, body)
    /\ UNCHANGED << firstReport, uiVars >>

StartSizes == StartAnalysisIn(SizeSources(MaxSizeLines))

NextSizes ==
    \/ StartSizes
    \/ ProcessAllocation
    \/ ProcessDeallocation
    \/ DetectQuality
    \/ FindLeaks
    \/ Return

SpecSizes == Init /\ [][NextSizes]_vars

StartComments == StartAnalysisIn(CommentSources(MaxChunks))

NextComments ==
    \/ StartComments
    \/ ProcessAllocation
    \/ ProcessDeallocation
    \/ DetectQuality
    \/ FindLeaks
    \/ Return

SpecComments == Init /\ [][NextComments]_vars

StartStatements == StartAnalysisIn(StatementSources(MaxStatementLines))

NextStatements ==
    \/ StartStatements
    \/ ProcessAllocation
    \/ ProcessDeallocation
    \/ DetectQuality
    \/ FindLeaks
    \/ Return

SpecStatements == Init /\ [][NextStatements]_vars

\* ------------------------------------------------------------ the other languages

\* The page calls performAnalysis with the tag of another language; the page has
\* loaded acorn, or not.
StartLanguage ==
    /\ pc = "idle"
    /\ \E c \in LanguageSources(MaxLanguageLines), lang \in OtherLanguages, a \in AcornStates :
         \E body \in {parseIn(lang, a, c).body} :
             /\ Begin(c, lang, body)
             /\ acorn' = a
    /\ UNCHANGED << firstReport, isAnalyzing, analysisTimeout, timers, running, notice, calls,
                    history, lastHistoryCall, pageVars >>

\* ASTParser.parse is called with a code that is empty or no string (analyze stops
\* such a code before; the method guards itself).
ParseInvalid ==
    /\ pc = "idle"
    /\ \E c \in InvalidInputs, lang \in OtherLanguages, a \in AcornStates :
         LET r == ParseCatch(ParseThrows)
         IN  /\ code' = c
             /\ language' = lang
             /\ acorn' = a
             /\ astBody' = r.body
             /\ outcome' = IF r.threw THEN "threw" ELSE "returned"
    /\ pc' = "parsed"
    /\ UNCHANGED << report, idx, analysis, allocations, currentMemory, timeline, now, run,
                    firstReport, isAnalyzing, analysisTimeout, timers, running, notice, calls,
                    history, lastHistoryCall, pageVars >>

NextLanguages ==
    \/ StartLanguage
    \/ ParseInvalid
    \/ ProcessAllocation
    \/ ProcessDeallocation
    \/ DetectQuality
    \/ FindLeaks
    \/ Return

SpecLanguages == Init /\ [][NextLanguages]_vars

\* ------------------------------------------------------------ the history module

MAX_HISTORY_ITEMS == 50

\* The entry saveToHistory builds (the timestamp and the first 1000 characters of
\* the code are left out: the module reads neither back).
HistoryItem(a, lang, time) ==
    [id |-> time,
     language |-> IF lang \in {NULL, ""} THEN "c" ELSE lang,
     statistics |-> [totalAllocations |-> Len(a.allocations),
                     totalFrees |-> Len(a.frees),
                     memoryLeaks |-> Len(a.leaks),
                     leakedBytes |-> SumSizes(a.leaks),
                     warnings |-> Len(a.warnings)]]

\* A variant: the entry that goes when the history is over its limit is the newest.
DropNewest(h) == IF Len(h) > MAX_HISTORY_ITEMS THEN Tail(h) ELSE h

\* if (history.length > MAX_HISTORY_ITEMS) history.pop()
LimitHistory(h) == IF Len(h) > MAX_HISTORY_ITEMS THEN Front(h) ELSE h

\* history.unshift(historyItem), then the limit.
Saved(h, item) == LimitHistory(<< item >> \o h)

\* history.splice(MAX_HISTORY_ITEMS / 2): the first half of the limit stays.
Trimmed(h) ==
    IF Len(h) > MAX_HISTORY_ITEMS \div 2 THEN SubSeq(h, 1, MAX_HISTORY_ITEMS \div 2) ELSE h

\* history.filter(h => h.id !== historyId)
Deleted(h, historyId) == SelectSeq(h, LAMBDA item : item.id # historyId)

\* The report and the language the page hands to saveToHistory while the history
\* is filled: the entries differ in their ids.
HistoryReports == {EmptyAnalysis}
HistoryLanguages == {"c"}

\* The body of saveToHistory(analysis, code, language) with an analysis and a code,
\* when localStorage.setItem takes the new array (lines 22-50).
SaveToStore(a, lang) ==
    /\ history' = Saved(history, HistoryItem(a, lang, now))
    /\ lastHistoryCall' = IF Len(history) = MAX_HISTORY_ITEMS THEN "evicted" ELSE "saved"

\* The same body when setItem throws QuotaExceededError (lines 54-64): the warning
\* 'History storage full. Oldest entries will be removed.' is shown, the stored
\* array is read again and its first half is stored, when the second setItem goes
\* through; the new entry is in neither.
SaveOverQuota ==
    /\ \E stored \in BOOLEAN : history' = IF stored THEN Trimmed(history) ELSE history
    /\ lastHistoryCall' = "over quota"

\* The same body when setItem throws anything else (localStorage disabled): the
\* catch logs the error, nothing is stored and nothing is shown.
SaveFails ==
    /\ history' = history
    /\ lastHistoryCall' = "failed"

\* saveToHistory(analysis, code, language) as performAnalysisInternal calls it, with
\* an analysis and a code: one of the three ways out.
saveToHistoryCall(a, lang) ==
    \/ SaveToStore(a, lang)
    \/ SaveOverQuota
    \/ SaveFails

\* saveToHistory(analysis, code, language), called with an analysis and a code.
saveToHistory ==
    /\ \E a \in HistoryReports, lang \in HistoryLanguages : SaveToStore(a, lang)
    /\ UNCHANGED << analysisVars, isAnalyzing, analysisTimeout, timers, running, calls, acorn,
                    notice, pageVars >>

\* saveToHistory without an analysis or with an empty code: it returns at once.
saveToHistoryInvalid ==
    /\ lastHistoryCall' = "skipped"
    /\ UNCHANGED << analysisVars, isAnalyzing, analysisTimeout, timers, running, calls, acorn,
                    notice, history, pageVars >>

\* saveToHistory when localStorage.setItem throws QuotaExceededError.
saveToHistoryOverQuota ==
    /\ SaveOverQuota
    /\ notice' = "History storage full"
    /\ UNCHANGED << analysisVars, isAnalyzing, analysisTimeout, timers, running, calls, acorn,
                    pageVars >>

\* saveToHistory when localStorage.setItem throws another error.
saveToHistoryFails ==
    /\ SaveFails
    /\ UNCHANGED << analysisVars, isAnalyzing, analysisTimeout, timers, running, calls, acorn,
                    notice, pageVars >>

\* deleteHistoryItem(historyId), whether the id is in the history or not: the
\* filtered array is stored, or setItem throws and the catch of lines 126-129 shows
\* the failure.
deleteHistoryItem ==
    /\ \E historyId \in 0..MaxHistoryClock, stored \in BOOLEAN :
         IF stored
         THEN /\ history' = Deleted(history, historyId)
              /\ lastHistoryCall' = "deleted"
              /\ notice' = "History item deleted"
         ELSE /\ history' = history
              /\ lastHistoryCall' = "failed"
              /\ notice' = "Failed to delete history item"
    /\ UNCHANGED << analysisVars, isAnalyzing, analysisTimeout, timers, running, calls, acorn,
                    pageVars >>

\* clearHistory(): localStorage.removeItem, after which getHistory returns [], or
\* removeItem throws and the catch of lines 93-96 shows the failure.
clearHistory ==
    /\ \E removed \in BOOLEAN :
         IF removed
         THEN /\ history' = <<>>
              /\ lastHistoryCall' = "cleared"
              /\ notice' = "History cleared"
         ELSE /\ history' = history
              /\ lastHistoryCall' = "failed"
              /\ notice' = "Failed to clear history"
    /\ UNCHANGED << analysisVars, isAnalyzing, analysisTimeout, timers, running, calls, acorn,
                    pageVars >>

\* Time passes between the calls of the history module.
HistoryTick ==
    /\ now < MaxHistoryClock
    /\ now' = now + 1
    /\ UNCHANGED << code, language, pc, outcome, report, astBody, idx, analysis, allocations,
                    currentMemory, timeline, run, firstReport, uiVars >>

NextHistory ==
    \/ saveToHistory
    \/ saveToHistoryInvalid
    \/ saveToHistoryOverQuota
    \/ saveToHistoryFails
    \/ deleteHistoryItem
    \/ clearHistory
    \/ HistoryTick

SpecHistory == Init /\ [][NextHistory]_vars

\* ------------------------------------------------------------ the page: analyzeCode
\*
\* analyzeCode is what the Analyze button and the keyboard shortcut call; the timer
\* it sets calls performAnalysisInternal, which runs performAnalysis between
\* isAnalyzing = true and isAnalyzing = false.  The browser runs a handler to its
\* end before it starts the next; here a call of analyzeCode and a timer may also
\* come between two steps of a run, which covers every order the browser produces.

\* The value of the code editor, trimmed: nothing, or a source.
EditorInputs(n) == {EmptyString} \cup Sources(n)
\* The value of the language select.
SelectInputs == {"c", "cpp"}

\* A variant: analyzeCode does not look at the flag.
FlagIgnored(flag) == FALSE

\* if (isAnalyzing)   (samples.js, line 528)
Busy(flag) == flag

\* CONFIG.UI.DEBOUNCE_DELAY, in ms.
DEBOUNCE_DELAY == 300

\* A timer whose delay has elapsed: its task is queued.  It runs when the event
\* loop gets to it, at that time or later; a handler that comes before it may still
\* clear it.
Due(id) == dueAt[id] <= now

\* A variant: the timer set before is not cleared.
TimersAfterSetUncleared(id, cleared) == timers \cup {id}

\* setTimeout(f, delay) returning id, after clearTimeout(cleared).
TimersAfterSet(id, cleared) == (timers \ {cleared}) \cup {id}
DueAfterSet(id, cleared, delay) ==
    [t \in TimersAfterSet(id, cleared) |-> IF t = id THEN now + delay ELSE dueAt[t]]

\* The timer id fires: it is no longer set.
DueAfterFire(id) == [t \in timers \ {id} |-> dueAt[t]]

\* showLoading() and hideLoading(): analyzeBtn.disabled = true, = false.
showLoading == "disabled"
hideLoading == "enabled"

\* A variant: performAnalysisInternal returns with the flag as it is.
FlagLeftSet(flag) == flag

\* isAnalyzing = false   (samples.js, lines 594, 601, 630, 635)
FlagAtReturn(flag) == FALSE

\* analyzeCode(): while an analysis is in progress a warning and nothing else; else
\* the timer set before is cleared and a new one is set.
analyzeCode ==
    /\ calls < MaxCalls
    /\ calls' = calls + 1
    /\ IF Busy(isAnalyzing)
       THEN /\ notice' = "Analysis already in progress"
            /\ UNCHANGED << analysisTimeout, timers, dueAt, callTimes >>
       ELSE /\ analysisTimeout' = calls + 1
            /\ timers' = TimersAfterSet(calls + 1, analysisTimeout)
            /\ dueAt' = DueAfterSet(calls + 1, analysisTimeout, DEBOUNCE_DELAY)
            /\ callTimes' = Append(callTimes, now)
            /\ UNCHANGED notice
    /\ UNCHANGED << analysisVars, isAnalyzing, running, envVars, fireTimes, button >>

\* A timer fires and performAnalysisInternal finds the editor empty: a warning, and
\* it returns before the flag is set.
TimerFiresOnEmptyEditor ==
    /\ \E id \in timers :
         /\ Due(id)
         /\ timers' = timers \ {id}
         /\ dueAt' = DueAfterFire(id)
    /\ fireTimes' = Append(fireTimes, now)
    /\ notice' = "Please enter some code"
    /\ UNCHANGED << analysisVars, isAnalyzing, analysisTimeout, running, calls, envVars,
                    callTimes, button >>

\* A timer fires and performAnalysisInternal finds code in the editor: the flag is
\* set, showLoading disables the button and performAnalysis is called.
TimerFires ==
    /\ \E id \in timers :
         /\ Due(id)
         /\ timers' = timers \ {id}
         /\ dueAt' = DueAfterFire(id)
    /\ fireTimes' = Append(fireTimes, now)
    /\ \E c \in EditorInputs(EditorLines) \ {EmptyString} :
         \E body \in {parse(c.lines)}, lang \in SelectInputs : Begin(c, lang, body)
    /\ isAnalyzing' = TRUE
    /\ button' = showLoading
    /\ running' = running + 1
    /\ UNCHANGED << firstReport, analysisTimeout, notice, calls, envVars, callTimes >>

\* performAnalysis has returned: the page is updated, the analysis is saved to the
\* history, the result is announced, hideLoading enables the button, the flag is
\* reset.
AnalysisShown ==
    /\ pc = "done"
    /\ running > 0
    /\ pc' = "idle"
    /\ saveToHistoryCall(report, language)
    /\ notice' = "Analysis complete"
    /\ button' = hideLoading
    /\ isAnalyzing' = FlagAtReturn(isAnalyzing)
    /\ running' = running - 1
    /\ UNCHANGED << code, language, outcome, report, astBody, idx, analysis, allocations,
                    currentMemory, timeline, now, run, firstReport, analysisTimeout, timers, calls,
                    acorn, dueAt, callTimes, fireTimes >>

\* The call of performAnalysis throws (the function of share.js catches what its
\* analyzer throws; the handler is written for one that does not): the catch of
\* line 589 announces the failure, enables the button and resets the flag.
AnalysisThrows ==
    /\ running > 0
    /\ pc \notin {"idle", "done"}
    /\ pc' = "idle"
    /\ notice' = "Analysis failed"
    /\ button' = hideLoading
    /\ isAnalyzing' = FlagAtReturn(isAnalyzing)
    /\ running' = running - 1
    /\ UNCHANGED << code, language, outcome, report, astBody, idx, analysis, allocations,
                    currentMemory, timeline, now, run, firstReport, analysisTimeout, timers, calls,
                    envVars, dueAt, callTimes, fireTimes >>

\* The call of performAnalysis returns nothing: if (!analysis), line 598.
AnalysisReturnsNothing ==
    /\ pc = "done"
    /\ running > 0
    /\ pc' = "idle"
    /\ notice' = "Analysis returned no results"
    /\ button' = hideLoading
    /\ isAnalyzing' = FlagAtReturn(isAnalyzing)
    /\ running' = running - 1
    /\ UNCHANGED << code, language, outcome, report, astBody, idx, analysis, allocations,
                    currentMemory, timeline, now, run, firstReport, analysisTimeout, timers, calls,
                    envVars, dueAt, callTimes, fireTimes >>

\* An update of the page throws after performAnalysis has returned, before the
\* analysis is saved to the history or after it: the catch of line 632.
UpdateThrows ==
    /\ pc = "done"
    /\ running > 0
    /\ pc' = "idle"
    /\ \E saved \in BOOLEAN :
         IF saved THEN saveToHistoryCall(report, language)
                  ELSE UNCHANGED << history, lastHistoryCall >>
    /\ notice' = "Analysis failed"
    /\ button' = hideLoading
    /\ isAnalyzing' = FlagAtReturn(isAnalyzing)
    /\ running' = running - 1
    /\ UNCHANGED << code, language, outcome, report, astBody, idx, analysis, allocations,
                    currentMemory, timeline, now, run, firstReport, analysisTimeout, timers, calls,
                    acorn, dueAt, callTimes, fireTimes >>

\* Time passes: between two handlers, and within a run of performAnalysisInternal
\* between two reads of Date.now().  No timer has to run at the time it is due.
NextTime == now + TimeStep
TimePasses ==
    /\ now < MaxTime
    /\ now' = NextTime
    /\ UNCHANGED << code, language, pc, outcome, report, astBody, idx, analysis, allocations,
                    currentMemory, timeline, run, firstReport, uiVars >>

NextPage ==
    \/ analyzeCode
    \/ TimePasses
    \/ TimerFiresOnEmptyEditor
    \/ TimerFires
    \/ ProcessAllocation
    \/ ProcessDeallocation
    \/ DetectQuality
    \/ FindLeaks
    \/ Return
    \/ AnalysisShown
    \/ AnalysisThrows
    \/ AnalysisReturnsNothing
    \/ UpdateThrows

SpecPage == Init /\ [][NextPage]_vars

\* performAnalysisInternal is synchronous: once called it runs to its return.
RunStep ==
    \/ ProcessAllocation
    \/ ProcessDeallocation
    \/ DetectQuality
    \/ FindLeaks
    \/ Return
    \/ AnalysisShown
    \/ AnalysisThrows
    \/ AnalysisReturnsNothing
    \/ UpdateThrows

FairSpecPage == SpecPage /\ WF_vars(RunStep)

\* ------------------------------------------------------------ C11

\* The variables the events name (an event of convertAcornAST may name none).
NamedVars == {v \in EventVars : ~NoVar(v)}

\* v holds a record: its last event so far is an allocation.
HoldsRecord(v) == LastEvent(v, Processed) # 0 /\ IsAlloc(LastEvent(v, Processed), v)

\* C11: after every handled event, skipped and warning-only events included, the
\* map has an entry for a variable exactly when the variable holds an active
\* record: no entry holds an empty list, no variable has two entries, and the
\* variables with an entry are those whose last event is an allocation.
C11_EntryIffActiveRecords ==
    /\ \A e \in 1..Len(allocations) : allocations[e].val # <<>>
    /\ \A e, f \in 1..Len(allocations) : allocations[e].key = allocations[f].key => e = f
    /\ pc # "idle" => \A v \in NamedVars : MapHas(allocations, v) <=> HoldsRecord(v)

\* A skipped event has been handled, a free has just emptied the list of a
\* variable, whose entry is gone, and another variable still has its entry.
C11_Witness ==
    /\ pc = "nodes" /\ Processed >= 1
    /\ \E i \in 1..Processed : NoVar(astBody[i].var)
    /\ astBody[Processed].type = "Deallocation"
    /\ FoundActive(astBody[Processed].var, Processed)
    /\ ~MapHas(allocations, astBody[Processed].var)
    /\ allocations # <<>>

\* ------------------------------------------------------------ C12

\* C12 as stated: within one report the allocIds of the allocations differ from
\* one another, and the freedAllocId of every free is the allocId of exactly one
\* allocation, two allocations of one variable on one line included.
C12_AllocIdsUnique ==
    Finished =>
        /\ \A i, j \in 1..Len(report.allocations) :
               i # j => report.allocations[i].allocId # report.allocations[j].allocId
        /\ \A f \in 1..Len(report.frees) :
               Cardinality({i \in 1..Len(report.allocations) :
                               report.allocations[i].allocId = report.frees[f].freedAllocId}) = 1

\* ------------------------------------------------------------ C13

\* The allocations recorded so far for the statement with the given text.
RecordedFor(line) == SelectSeq(analysis.allocations, LAMBDA a : a.lineText = line)

\* C13 as stated: for C-family code an allocation with the arguments k * sizeof(T)
\* or sizeof(T) * k is recorded with k times the table size of T:
\* p = malloc(5 * sizeof(int)) with 20, p = malloc(sizeof(double) * 3) with 24.
C13_SizeofTimesCount ==
    /\ \A i \in 1..Len(RecordedFor(LineSizeofInt)) :
           RecordedFor(LineSizeofInt)[i].size = 5 * TYPE_SIZES_INT
    /\ \A i \in 1..Len(RecordedFor(LineSizeofDouble)) :
           RecordedFor(LineSizeofDouble)[i].size = 3 * TYPE_SIZES_DOUBLE

\* ------------------------------------------------------------ C14

\* C14 as stated: for C++ code the array allocation new T[k] is recorded with the
\* function 'new[]' and the size k times the default scalar size:
\* int *a = new int[8] with 32.
C14_NewArraySize ==
    EffectiveLanguage(language) = "cpp" =>
        \A i \in 1..Len(RecordedFor(LineNewArray)) :
            /\ RecordedFor(LineNewArray)[i].function = "new[]"
            /\ RecordedFor(LineNewArray)[i].size = 8 * TYPE_SIZES_DEFAULT

\* ------------------------------------------------------------ C15

\* The allocation record pushed for event i: allocations holds one record per
\* Allocation event, in the order of the events.
RecordOf(i) ==
    report.allocations[Cardinality({k \in 1..i : astBody[k].type = "Allocation"})]

\* Event i is an allocation and no later event names its variable.
LastAllocation(i) ==
    astBody[i].type = "Allocation" /\ LastEvent(astBody[i].var, Len(astBody)) = i

\* C15: an extracted allocation whose variable is neither deallocated nor
\* allocated again later yields exactly one Leak, pushed by findLeaks, with the
\* line, function and size of that allocation; char *buffer = malloc(100); never
\* freed gives one leak of buffer with size 100 on its line.
C15_UnfreedAllocationLeaksOnce ==
    Finished =>
        \A i \in 1..Len(astBody) :
            LastAllocation(i) =>
                LET v == astBody[i].var
                    rec == RecordOf(i)
                    mine == SelectSeq(report.leaks, LAMBDA l : l.var = v /\ l.line = astBody[i].line)
                IN  /\ Len(mine) = 1
                    /\ mine[1].fix.kind # "reassigned"
                    /\ ResidualOf(report.leaks, v) = mine
                    /\ rec.var = v /\ rec.line = astBody[i].line
                    /\ mine[1].function = rec.function
                    /\ mine[1].size = rec.size
                    /\ rec.lineText = LineBuffer => mine[1].size = 100 /\ mine[1].function = "malloc"

\* A finished run where buffer is allocated and never freed, another variable is
\* allocated and freed, and the only leak of the report is that of buffer, with
\* size 100.
C15_Witness ==
    /\ Finished
    /\ \E i \in 1..Len(astBody) :
         /\ LastAllocation(i) /\ astBody[i].var = "buffer"
         /\ \E k \in 1..Len(report.leaks) :
              report.leaks[k].var = "buffer" /\ report.leaks[k].size = 100
                  /\ report.leaks[k].line = astBody[i].line
    /\ report.frees # <<>>
    /\ Len(report.leaks) = 1

\* ------------------------------------------------------------ C16

\* C16 as stated: comment removal leaves the line numbers as they are: the line
\* reported for every extracted event is the line of the original source on which
\* the statement stands, also after a block comment of several lines.
C16_LinesOfOriginalSource ==
    pc # "idle" =>
        \A i \in 1..Len(astBody) :
            /\ astBody[i].line \in 1..Len(code.lines)
            /\ Trim(code.lines[astBody[i].line]) = astBody[i].originalLine

\* ------------------------------------------------------------ C19

\* The 'Unsafe Function' warnings of the report, in the order they were pushed.
UnsafeWarnings == SelectSeq(report.warnings, LAMBDA w : w.type = "Unsafe Function")

\* The lines of the source, by number, whose text is one of the given lines.
LinesAmong(texts) == {i \in 1..Len(code.lines) : code.lines[i] \in texts}

\* The warnings are one per line of the given set, in the order of the lines, each
\* with the number and the text of its line.
WarnsExactlyAt(lineNums) ==
    /\ Len(UnsafeWarnings) = Cardinality(lineNums)
    /\ \A k \in 1..Len(UnsafeWarnings) :
           /\ UnsafeWarnings[k].line \in lineNums
           /\ UnsafeWarnings[k].lineText = Trim(code.lines[UnsafeWarnings[k].line])
           /\ k > 1 => UnsafeWarnings[k - 1].line < UnsafeWarnings[k].line

\* C19 as stated: the scan reads the text without its comments: a line gives one
\* 'Unsafe Function' warning with its number exactly when it holds strcpy( and no
\* strncpy outside comments; a strcpy( inside a // or /* */ comment gives none.
C19_ScanSkipsComments ==
    Finished => WarnsExactlyAt(LinesAmong({LineStrcpy}))

\* C19 amended: the scan reads the lines of the code as given, comments included:
\* a line gives one 'Unsafe Function' warning with its number exactly when its
\* text holds strcpy( and no strncpy, also when the strcpy( stands inside a // or
\* /* */ comment.
C19_ScanReadsOriginalLines ==
    Finished => WarnsExactlyAt(LinesAmong({LineStrcpy, LineCommented, LineCommentClose}))

\* A finished run over a block comment that holds strcpy( and a line of code that
\* holds it: two warnings, the first at the line inside the comment.
C19_Witness ==
    /\ Finished
    /\ Len(UnsafeWarnings) = 2
    /\ code.lines[UnsafeWarnings[1].line] = LineCommentClose
    /\ code.lines[UnsafeWarnings[2].line] = LineStrcpy
    /\ LinesAmong({LineBoth}) # {}

\* ------------------------------------------------------------ C17

\* A run of performAnalysisInternal is in progress exactly when the flag is set,
\* there is one at most, and no timer is waiting while it runs.
OneRunAtATime ==
    /\ running <= 1
    /\ isAnalyzing <=> running = 1
    /\ isAnalyzing => timers = {}
    /\ Cardinality(timers) <= 1

\* The step of a call of analyzeCode that finds the flag set: the warning is
\* shown, no timer is set or cleared, no analysis starts.
BusyCallStep ==
    calls' = calls + 1 /\ isAnalyzing =>
        /\ notice' = "Analysis already in progress"
        /\ UNCHANGED << timers, analysisTimeout, running, isAnalyzing, analysisVars >>

\* C17: the analyses the user starts come one after the other: at most one run of
\* performAnalysisInternal is in progress at any time, and a call of analyzeCode
\* made while isAnalyzing is true sets no timer and starts no analysis; it shows a
\* warning.
C17_AnalysesSerialized == []OneRunAtATime /\ [][BusyCallStep]_vars

\* A run is in progress, started by the timer of the second of two calls, and a
\* third call made during the run has shown the warning.
C17_Witness ==
    /\ isAnalyzing /\ running = 1 /\ pc = "nodes"
    /\ calls = 3
    /\ analysisTimeout = 2
    /\ notice = "Analysis already in progress"

\* ------------------------------------------------------------ C18

\* The event carries no variable name (var is undefined).
Nameless(node) == node.var = NULL

\* The handler call of astBody.forEach for one node, on the tracker t.
HandleNode(t, node) ==
    IF node.type = "Allocation"
    THEN handleAllocation(t, processASTAllocation(EffectiveLanguage(language), node, code.lines, now))
    ELSE handleFree(t, processASTDeallocation(EffectiveLanguage(language), node, code.lines))

RECURSIVE RunEvents(_, _, _)
\* The tracker after the handlers have taken the events k.. of nodes in turn.
RunEvents(t, nodes, k) ==
    IF k > Len(nodes) THEN t ELSE RunEvents(HandleNode(t, nodes[k]), nodes, k + 1)

\* What analyze returns for the events of the run with the nameless ones taken
\* out: allocations, frees, leaks and warnings.
ReportWithoutNameless ==
    LET named == SelectSeq(astBody, LAMBDA node : ~Nameless(node))
        fresh == [allocations |-> EmptyMap, currentMemory |-> 0, analysis |-> EmptyAnalysis]
        t == RunEvents(fresh, named, 1)
    IN  findLeaks([t EXCEPT !.analysis.warnings = @ \o QualityWarnings(code.lines)]).analysis

\* The step for an event without a variable name changes neither the map, nor
\* currentMemory, nor allocations, frees, leaks and warnings, and the loop goes on.
SkippedStep ==
    (ProcessAllocation \/ ProcessDeallocation) /\ Nameless(astBody[idx]) =>
        /\ UNCHANGED << allocations, currentMemory, analysis >>
        /\ pc' = "nodes" /\ idx' = idx + 1

\* The report is the report of the same events without the nameless ones.
AsIfNotThere ==
    Finished => [report EXCEPT !.timeline = <<>>] = ReportWithoutNameless

\* C18: an event without a variable name is skipped by its handler, which leaves
\* the map, currentMemory, allocations, frees, leaks and warnings as they are, and
\* the events after it are processed as if it had not been there.
C18_NamelessEventSkipped == []AsIfNotThere /\ [][SkippedStep]_vars

\* A finished run where an event without a name came first, and an allocation, a
\* free and a leak of the events after it are in the report.
C18_Witness ==
    /\ Finished
    /\ Nameless(astBody[1])
    /\ report.allocations # <<>>
    /\ report.frees # <<>>
    /\ report.leaks # <<>>
    /\ Len(report.timeline) > Len(report.allocations) + Len(report.frees)

\* ------------------------------------------------------------ C20

\* No warning pushed so far, and none in the returned report, is a 'Double Free'.
NoDoubleFreeWarning ==
    /\ \A k \in 1..Len(analysis.warnings) : analysis.warnings[k].type # "Double Free"
    /\ \A k \in 1..Len(report.warnings) : report.warnings[k].type # "Double Free"

\* Event j is a deallocation of a variable whose event before it is a deallocation
\* that freed a record.
FreedTwice(j) ==
    LET v == astBody[j].var
        before == LastEvent(v, j - 1)
    IN  /\ astBody[j].type = "Deallocation"
        /\ before # 0 /\ IsFree(before, v) /\ FoundActive(v, before)

\* The step for the second free of a freed variable: one 'Potential Double Free'
\* warning with the line of the event, no Free.
SecondFreeStep ==
    ProcessDeallocation /\ FreedTwice(idx) =>
        /\ Len(analysis'.warnings) = Len(analysis.warnings) + 1
        /\ Last(analysis'.warnings).type = "Potential Double Free"
        /\ Last(analysis'.warnings).line = astBody[idx].line
        /\ analysis'.frees = analysis.frees

\* C20: the branch of handleFree for an entry with an empty list is never taken:
\* no event sequence gives a warning of type 'Double Free'; the second free of a
\* variable that was freed gives 'Potential Double Free'.
C20_DoubleFreeBranchDead == []NoDoubleFreeWarning /\ [][SecondFreeStep]_vars

\* A finished run where a variable was allocated, freed and freed again, and the
\* report holds the warning of the second free.
C20_Witness ==
    /\ Finished
    /\ \E j \in 1..Len(astBody) :
         /\ FreedTwice(j)
         /\ \E k \in 1..Len(report.warnings) :
              /\ report.warnings[k].type = "Potential Double Free"
              /\ report.warnings[k].line = astBody[j].line

\* ------------------------------------------------------------ C21

\* The source never closes a brace it has not opened.
RECURSIVE WellNested(_, _, _)
WellNested(lines, i, depth) ==
    IF i > Len(lines) THEN TRUE
    ELSE LET d == depth + CountMark(lines[i], "{") - CountMark(lines[i], "}")
         IN  d >= 0 /\ WellNested(lines, i + 1, d)

\* A line that opens the brace scope of a loop: a for/while/do header with its '{'.
LoopOpener(line) == RegexMatch(LoopPattern, Trim(line)).found /\ HasMark(line, "{")

\* A line that opens the brace scope of a function: a function-definition header
\* with its '{'.
FunctionOpener(line) == FunctionHeader(Trim(line)) # NULL /\ HasMark(line, "{")

\* The brace scope a line opens: of a loop, of the function it names, or a plain block.
ScopeOf(line) ==
    IF LoopOpener(line) THEN [kind |-> "loop", name |-> NULL]
    ELSE IF FunctionOpener(line) THEN [kind |-> "function", name |-> FunctionHeader(Trim(line))]
    ELSE [kind |-> "block", name |-> NULL]

RECURSIVE ScopesBefore(_, _)
\* The brace scopes open before line k of the source, the innermost last.
ScopesBefore(lines, k) ==
    IF k <= 1 THEN <<>>
    ELSE LET before == ScopesBefore(lines, k - 1)
             line == lines[k - 1]
         IN  IF HasMark(line, "{") THEN Append(before, ScopeOf(line))
             ELSE IF HasMark(line, "}") /\ before # <<>> THEN Front(before)
             ELSE before

\* Line k lies inside the brace scope of at least one loop.
InsideLoop(lines, k) ==
    \E s \in 1..Len(ScopesBefore(lines, k)) : ScopesBefore(lines, k)[s].kind = "loop"

\* C21 as stated: an Allocation event has inLoop = true iff its statement lies
\* inside the brace scope of at least one loop; an allocation after a loop's
\* closing brace in the same function, or in a later function, has inLoop = false.
C21_InLoopIffInsideLoopScope ==
    (pc # "idle" /\ ~InvalidCode(code) /\ WellNested(code.lines, 1, 0)) =>
        \A i \in 1..Len(astBody) :
            astBody[i].type = "Allocation" =>
                (astBody[i].inLoop <=> InsideLoop(code.lines, astBody[i].line))

\* ------------------------------------------------------------ C22

\* The name of the innermost function whose brace scope encloses line k, NULL
\* outside every function body.
EnclosingFunction(lines, k) ==
    LET scopes == ScopesBefore(lines, k)
        fs == {s \in 1..Len(scopes) : scopes[s].kind = "function"}
    IN  IF fs = {} THEN NULL ELSE scopes[CHOOSE s \in fs : \A r \in fs : r <= s].name

\* C22 as stated: the functionName of an Allocation event is the name in the most
\* recent function-definition header whose brace scope still encloses the
\* statement, whatever calls stand on the statement's line or on earlier lines of
\* the body, and null only outside every function body.
C22_FunctionNameIsEnclosingFunction ==
    (pc # "idle" /\ ~InvalidCode(code) /\ WellNested(code.lines, 1, 0)) =>
        \A i \in 1..Len(astBody) :
            astBody[i].type = "Allocation" =>
                astBody[i].functionName = EnclosingFunction(code.lines, astBody[i].line)

\* ------------------------------------------------------------ C23

\* The events extracted from the statement that starts at line l.
EventsAt(l, type) == {i \in 1..Len(astBody) : astBody[i].line = l /\ astBody[i].type = type}

\* The lines stand in source order along the event sequence.
InSourceOrder == \A i, j \in 1..Len(astBody) : i < j => astBody[i].line <= astBody[j].line

\* A statement gives at most one Allocation and one Deallocation, and the
\* Allocation stands right before the Deallocation.
AllocationFirst ==
    \A l \in 1..Len(code.lines) :
        /\ Cardinality(EventsAt(l, "Allocation")) <= 1
        /\ Cardinality(EventsAt(l, "Deallocation")) <= 1
        /\ \A a \in EventsAt(l, "Allocation"), d \in EventsAt(l, "Deallocation") : d = a + 1

\* The tracker handles the events in the order of the sequence: at the turn of a
\* deallocation the allocation of the same statement is in the analysis already.
HandledInOrder ==
    ProcessDeallocation =>
        \A a \in EventsAt(astBody[idx].line, "Allocation") :
            /\ a < idx
            /\ \E k \in 1..Len(analysis.allocations) :
                 /\ analysis.allocations[k].line = astBody[a].line
                 /\ analysis.allocations[k].var = astBody[a].var

\* C23: the extractor emits the events in the source order of their logical
\* statements, at most one Allocation and one Deallocation per statement, and when
\* a statement gives both, the Allocation is emitted, and handled by the tracker,
\* before the Deallocation.
C23_AllocationBeforeDeallocation ==
    /\ [](pc # "idle" /\ ~InvalidCode(code) => InSourceOrder /\ AllocationFirst)
    /\ [][HandledInOrder]_vars

\* A finished run of a source with the line `free(p); p = malloc(8);`, whose free
\* stands first in the text: the report holds the allocation of that line, and
\* the free of that line freed it.
C23_Witness ==
    /\ Finished
    /\ \E l \in 1..Len(code.lines) :
         /\ code.lines[l] = LineFreeAlloc
         /\ EventsAt(l, "Allocation") # {} /\ EventsAt(l, "Deallocation") # {}
         /\ \E k \in 1..Len(report.allocations), f \in 1..Len(report.frees) :
              /\ report.allocations[k].line = l
              /\ report.frees[f].line = l
              /\ report.frees[f].freedAllocId = report.allocations[k].allocId

\* ------------------------------------------------------------ C24

\* The line ends a statement: its last character is ';', '{' or '}'.
Terminates(line) ==
    Trim(line) # <<>> /\ Last(Trim(line)).k = "p" /\ Last(Trim(line)).s \in {";", "{", "}"}

RECURSIVE FirstLine(_, _)
\* The first line from i on that is not blank, 0 when there is none.
FirstLine(lines, i) ==
    IF i > Len(lines) THEN 0
    ELSE IF Trim(lines[i]) # <<>> THEN i ELSE FirstLine(lines, i + 1)

RECURSIVE LastLine(_, _)
\* The first line from i on that ends a statement, 0 when there is none.
LastLine(lines, i) ==
    IF i > Len(lines) THEN 0
    ELSE IF Terminates(lines[i]) THEN i ELSE LastLine(lines, i + 1)

RECURSIVE Statements(_, _)
\* The logical statements of the lines from i on: each runs from its first line
\* that is not blank to the first line that ends in ';', '{' or '}'; the last
\* statement of a source that ends without such a line runs to the end of the
\* source.
Statements(lines, i) ==
    LET first == FirstLine(lines, i)
        end == IF first = 0 THEN 0 ELSE LastLine(lines, first)
        last == IF end = 0 THEN Len(lines) ELSE end
    IN  IF first = 0 THEN <<>>
        ELSE << [first |-> first, last |-> last] >> \o Statements(lines, last + 1)

RECURSIVE StatementText(_, _, _)
\* The text of the statement of lines first..last: the trimmed lines, a blank
\* between them.
StatementText(lines, first, last) ==
    IF first = last THEN Trim(lines[first])
    ELSE AppendToStatement(StatementText(lines, first, last - 1), Trim(lines[last]))

\* What an event says of its statement.
EventOf(type, line, var, function) ==
    [type |-> type, line |-> line, var |-> var, function |-> function]

\* The events of one statement: those of its text, at its first line.
StatementEvents(lines, stmt) ==
    LET text == StatementText(lines, stmt.first, stmt.last)
        alloc == AllocMatch(text)
        dealloc == DeallocMatch(text)
    IN  (IF alloc.found
         THEN << EventOf("Allocation", stmt.first, alloc.var, alloc.function) >> ELSE <<>>)
        \o (IF dealloc.found
            THEN << EventOf("Deallocation", stmt.first, dealloc.var, dealloc.function) >>
            ELSE <<>>)

\* The events of all statements of the source, in order.
ExpectedEvents(lines) ==
    LET stmts == Statements(lines, 1)
    IN  Flatten([k \in 1..Len(stmts) |-> StatementEvents(lines, stmts[k])])

\* C24: a statement spread over several lines is matched once, as one statement;
\* its event reports the number of its first line; no statement that holds an
\* allocation or deallocation pattern is lost by the buffering: the events are
\* those of the logical statements of the source, one by one, the statement the
\* source ends with included.
C24_StatementsMatchedNoneLost ==
    (pc # "idle" /\ ~InvalidCode(code)) =>
        [i \in 1..Len(astBody) |->
            EventOf(astBody[i].type, astBody[i].line, astBody[i].var, astBody[i].function)]
          = ExpectedEvents(code.lines)

\* ------------------------------------------------------------ C25

\* The call is one the fallback serves: the tag is not javascript, or acorn is not
\* on the page, or acorn throws on the cleaned code.
FallbackCase ==
    \/ language \in OtherLanguages \ {"javascript"}
    \/ language = "javascript" /\ acorn = "undefined"
    \/ language = "javascript" /\ acorn = "loaded" /\ AcornThrows(removeComments(code.lines))

\* C25: ASTParser.parse never throws and returns a body; under python, java, rust,
\* go and an unknown tag, and under javascript when acorn is absent or throws on
\* the source, the body is the event sequence parseC gives for the
\* comment-stripped text.
C25_FallbackIsParseC ==
    /\ outcome # "threw"
    /\ pc = "parsed" => astBody = <<>>
    /\ (pc \notin {"idle", "parsed"} /\ FallbackCase) => astBody = parseC(removeComments(code.lines))

\* A finished javascript run with acorn on the page and a source acorn throws on:
\* the events are an allocation and a deallocation that parseC found.
C25_Witness ==
    /\ Finished
    /\ language = "javascript" /\ acorn = "loaded"
    /\ AcornThrows(removeComments(code.lines))
    /\ \E i, j \in 1..Len(astBody) :
         astBody[i].type = "Allocation" /\ astBody[j].type = "Deallocation"
    /\ report.allocations # <<>>

\* ------------------------------------------------------------ C27

\* The Frees that name the allocation record, and the Leaks pushed for it.
FreesNaming(a, alloc) == SelectSeq(a.frees, LAMBDA f : f.freedAllocId = alloc.allocId)
LeaksFor(a, alloc) == SelectSeq(a.leaks, LAMBDA l : l.var = alloc.var /\ l.line = alloc.line)

\* C27: in the final report every allocation is accounted for exactly once, as
\* freed or as leaked: allocations.length = frees.length + leaks.length, and the
\* sizes of the allocations add up to the sizes of the freed records plus the
\* sizes of the leaks.
C27_AllocationsFreedOrLeaked ==
    Finished =>
        /\ Len(report.allocations) = Len(report.frees) + Len(report.leaks)
        /\ SumSizes(report.allocations) = SumFreed(report) + SumSizes(report.leaks)
        /\ \A k \in 1..Len(report.allocations) :
             Len(FreesNaming(report, report.allocations[k]))
                 + Len(LeaksFor(report, report.allocations[k])) = 1

\* A finished run whose report holds a freed allocation, an allocation leaked by
\* reassignment and one leaked at the end.
C27_Witness ==
    /\ Finished
    /\ report.frees # <<>>
    /\ \E v \in EventVars : ReassignedLeaks(report.leaks, v) # <<>>
    /\ Residual(report.leaks) # <<>>
    /\ SumSizes(report.allocations) > SumSizes(report.leaks)

\* ------------------------------------------------------------ C28

\* Every list of the map holds one record at most.
OneRecordPerVariable == \A e \in 1..Len(allocations) : Len(allocations[e].val) <= 1

\* The report names a variable in one residual leak at most.
OneResidualLeakPerVariable ==
    Finished => \A v \in EventVars : Len(ResidualOf(report.leaks, v)) <= 1

\* C28: in every reachable state of the tracker the list of active records of a
\* variable holds at most one record, and findLeaks emits at most one residual
\* leak per variable.
C28_AtMostOneActiveRecord == OneRecordPerVariable /\ OneResidualLeakPerVariable

\* A finished run where a variable was allocated twice with no free between: the
\* report holds the reassignment leak and one residual leak of it.
C28_Witness ==
    /\ Finished
    /\ \E v \in EventVars :
         /\ \E i, j \in AllocEvents(v, Len(astBody)) : i < j /\ LastEvent(v, j - 1) = i
         /\ Len(ReassignedLeaks(report.leaks, v)) >= 1
         /\ Len(ResidualOf(report.leaks, v)) = 1
         /\ Len(ActiveIn(allocations, v)) = 1

\* ------------------------------------------------------------ C30

\* The entries stand newest first: no entry is younger than one before it.
NewestFirst == \A i, j \in 1..Len(history) : i < j => history[i].id >= history[j].id

\* A save that goes through into a full history: the oldest entry, the last, is
\* gone, the others have moved down by one, the new entry stands at index 0.
EvictionStep ==
    saveToHistory /\ Len(history) = MAX_HISTORY_ITEMS =>
        /\ Len(history') = MAX_HISTORY_ITEMS
        /\ Tail(history') = Front(history)
        /\ Head(history').id = now

\* C30: from an empty store, after any calls of saveToHistory, deleteHistoryItem
\* and clearHistory the stored history holds at most MAX_HISTORY_ITEMS entries,
\* newest first; a save that goes through into a full history evicts the oldest
\* entry and puts the new entry at index 0.
C30_HistoryBoundedNewestFirst ==
    /\ [](Len(history) <= MAX_HISTORY_ITEMS /\ NewestFirst)
    /\ [][EvictionStep]_vars

\* The history is full after a save that evicted an entry: the new entry is at
\* index 0 and is younger than the oldest entry left.
C30_Witness ==
    /\ lastHistoryCall = "evicted"
    /\ Len(history) = MAX_HISTORY_ITEMS
    /\ history[1].id = now
    /\ history[1].id > history[MAX_HISTORY_ITEMS].id

\* ------------------------------------------------------------ C26

\* The call i of callTimes is the last of its burst: no call follows it, or the
\* next one comes DEBOUNCE_DELAY or more after it.
BurstEnd(i) ==
    i = Len(callTimes) \/ callTimes[i + 1] - callTimes[i] >= DEBOUNCE_DELAY

\* The last calls of the bursts, in the order of the calls: the timer of the last
\* call of all may still be waiting.
BurstsRun ==
    SelectSeq([i \in 1..Len(callTimes) |-> i],
              LAMBDA i : BurstEnd(i) /\ (i < Len(callTimes) \/ timers = {}))

\* One run of performAnalysisInternal for each burst, DEBOUNCE_DELAY after the
\* last call of the burst, and no other run.
OneRunPerBurst ==
    fireTimes = [k \in 1..Len(BurstsRun) |-> callTimes[BurstsRun[k]] + DEBOUNCE_DELAY]

\* C26 as it stands: at most one timer is pending, and every burst of calls less
\* than DEBOUNCE_DELAY apart has caused exactly one run, DEBOUNCE_DELAY after its
\* last call.
C26_OneRunPerBurst == Cardinality(timers) <= 1 /\ OneRunPerBurst

\* At most one timer waits; it is the one the last accepted call set, due
\* DEBOUNCE_DELAY after that call.
OneTimerPending ==
    /\ Cardinality(timers) <= 1
    /\ timers # {} =>
         /\ timers = {analysisTimeout}
         /\ callTimes # << >>
         /\ dueAt[analysisTimeout] = callTimes[Len(callTimes)] + DEBOUNCE_DELAY

\* No run comes less than DEBOUNCE_DELAY after an accepted call made before it, and
\* every run has such a call.
NoRunEarly ==
    \A k \in 1..Len(fireTimes) :
        /\ \E i \in 1..Len(callTimes) : callTimes[i] + DEBOUNCE_DELAY <= fireTimes[k]
        /\ \A i \in 1..Len(callTimes) :
               callTimes[i] < fireTimes[k] => callTimes[i] + DEBOUNCE_DELAY <= fireTimes[k]

\* Between two runs there is an accepted call: the calls made up to a run cause no
\* second run.
OneRunPerCall ==
    \A k \in 1..(Len(fireTimes) - 1) :
        \E i \in 1..Len(callTimes) :
            /\ fireTimes[k] <= callTimes[i]
            /\ callTimes[i] + DEBOUNCE_DELAY <= fireTimes[k + 1]

\* The timer of the last accepted call is waiting or has run.
LastCallServed ==
    callTimes # << >> /\ timers = {} =>
        /\ fireTimes # << >>
        /\ fireTimes[Len(fireTimes)] >= callTimes[Len(callTimes)] + DEBOUNCE_DELAY

\* The step of a call of analyzeCode made while no analysis is running: the timer
\* that was waiting is gone, run or not, and the only timer is the new one.
DebounceStep ==
    calls' = calls + 1 /\ ~isAnalyzing =>
        /\ timers' = {calls + 1}
        /\ timers \cap timers' = {}
        /\ dueAt'[calls + 1] = now + DEBOUNCE_DELAY
        /\ callTimes' = Append(callTimes, now)
        /\ fireTimes' = fireTimes

\* The step of a run: the timer that runs is the one the last accepted call set,
\* it is due, and no timer is left.
RunStartStep ==
    fireTimes' # fireTimes =>
        /\ timers = {analysisTimeout}
        /\ dueAt[analysisTimeout] <= now
        /\ timers' = {}
        /\ fireTimes' = Append(fireTimes, now)

\* C26, amended: at most one analysis timer is pending at any time; a call of
\* analyzeCode made while no analysis is running cancels the timer that was
\* pending and sets one due DEBOUNCE_DELAY later, so a burst of calls causes at
\* most one run of performAnalysisInternal, DEBOUNCE_DELAY or more after the last
\* call of the burst; the timer of the last call is waiting or has run.
C26_AtMostOneRunPerBurst ==
    /\ [](OneTimerPending /\ NoRunEarly /\ OneRunPerCall /\ LastCallServed)
    /\ [][DebounceStep /\ RunStartStep]_vars

\* Two calls less than DEBOUNCE_DELAY apart gave one run, later than DEBOUNCE_DELAY
\* after the second, and a third call after that run has set its timer.
C26_Witness ==
    /\ Len(callTimes) = 3
    /\ callTimes[2] > callTimes[1]
    /\ callTimes[2] - callTimes[1] < DEBOUNCE_DELAY
    /\ Len(fireTimes) = 1
    /\ fireTimes[1] > callTimes[2] + DEBOUNCE_DELAY
    /\ callTimes[3] >= fireTimes[1]
    /\ timers = {3}

\* ------------------------------------------------------------ C29

\* No run of performAnalysisInternal is in progress: the flag is not set and the
\* button is enabled.
ResetWhenIdle == running = 0 => ~isAnalyzing /\ button = hideLoading

\* The step at which a run that has set the flag returns, by whichever path: the
\* flag is reset and the button enabled.
ReturnResets == running' < running => ~isAnalyzing' /\ button' = hideLoading

\* C29: on every path through performAnalysisInternal that sets isAnalyzing (the
\* analysis throws, it returns nothing, an update of the page throws, the normal
\* completion) the flag is reset and the analyze button enabled before the
\* function returns, so the flag never stays set and a later call of analyzeCode
\* is not rejected forever.
C29_FlagResetOnEveryPath ==
    /\ []ResetWhenIdle
    /\ [][ReturnResets]_vars
    /\ (isAnalyzing ~> ~isAnalyzing)

\* A run has ended in the catch of performAnalysisInternal, the flag is reset, the
\* button enabled, and a call of analyzeCode made after it has set its timer.
C29_Witness ==
    /\ notice = "Analysis failed"
    /\ ~isAnalyzing /\ button = hideLoading /\ running = 0
    /\ fireTimes # << >>
    /\ timers # {}
    /\ callTimes[Len(callTimes)] >= fireTimes[Len(fireTimes)]

====
